---- MODULE Spec2Model ----
(***************************************************************************)
(* splitby: a model of the record pipeline (reader, worker pool, ordered   *)
(* collector) and of the selection resolver and unit composers.            *)
(*                                                                         *)
(* Bytes are integers: a record's output is a sequence of byte values.     *)
(***************************************************************************)
EXTENDS Integers, Sequences, FiniteSets, TLC

(***************************************************************************)
(* Bounds of the model.                                                    *)
(***************************************************************************)
\* Longest input, in records.
MaxRecords == 3
\* Capacity of each bounded channel (channel::bounded(1024) in the source,
\* scaled down so that a full queue is reachable).
QueueCap == 1
\* batch_byte_quota (default 128 KiB, any value > 0 through SPLITBY_BATCH_QUOTA).
BatchQuota == 2
\* output_flush_threshold (default 64 KiB, any value > 0 through SPLITBY_OUTPUT_FLUSH).
FlushThreshold == 3
\* Largest raw selection index, in absolute value.
MaxRaw == 5
\* Largest number of units given to normalise_selection.
MaxLen == 3
\* Longest list of ranges given to invert_selections.
MaxRanges == 3
\* Longest record given to a composer, in bytes.
MaxBytes == 3
\* Longest selection list given to a composer.
MaxSelections == 2
\* Most records read by the align path.
MaxAligned == 2
\* Records of an input that overfills both queues (QueueCap batches each,
\* and one batch held by each worker).
MaxBacklog == 5

(***************************************************************************)
(* Program constants.                                                      *)
(***************************************************************************)
NL == 10
NUL == 0
CR == 13

\* Worker threads: max(available_parallelism - 1, 1) is 1 (also under
\* SPLITBY_SINGLE_CORE) or more; worker_count of them are spawned.
Workers == {1, 2}
\* A record's bytes.len(): below the batch quota, or reaching it alone.
RecLens == {1, BatchQuota}
\* The input terminator of a mode (read_until's delimiter byte).
Terminator(mode) == IF mode = "PerLine" THEN NL ELSE NUL
\* What one read_until call can append to the buffer: bytes that hold no
\* terminator, ended by the terminator or by the end of the input.
Body(len) == [k \in 1..len |-> 120]
RawChunks(t) ==
    {<<t>>, <<CR, t>>} \cup
    {Body(len) \o e : len \in RecLens, e \in {<<>>, <<t>>, <<CR, t>>}}
InputModes == {"PerLine", "ZeroTerminated", "WholeString"}

VARIABLES
    \* configuration (immutable after Init)
    input_mode, strict_return, worker_count,
    \* reader (read_input)
    rpc, index, batch, batch_bytes, input, eof,
    \* history: the last byte read_until returned for each record
    raw_ends,
    \* history: an Ok chunk reached the collector ahead of its turn
    reordered,
    \* channels
    recordQ, resultQ,
    \* workers (process_records)
    wpc, wchunk,
    \* main thread / collector (get_results)
    cpc, next_index, pending, output_buffer, written, result,
    \* one call of normalise_selection: its arguments and what it returned
    selection, normalised,
    \* one call of process_bytes / process_chars / process_fields: the
    \* instructions, the record's bytes and what the call returned
    transform_instructions, record_bytes, processed_result,
    \* calls of invert_selections: the list and length given, and the list
    \* returned by the calls made so far
    to_invert, inverted_ranges,
    \* the align path of read_input: the records read into memory, the
    \* widths scanned from them, and what process_fields returned for each
    all_records, max_widths, aligned_results,
    \* the collector of processing/get_results.rs: the trim_newline option,
    \* the largest record index received, and the outputs the flush loop has
    \* removed from pending and is writing
    trim_newline, max_index_seen, taken

vars == <<input_mode, strict_return, worker_count,
          rpc, index, batch, batch_bytes, input, eof, raw_ends, reordered,
          recordQ, resultQ, wpc, wchunk,
          cpc, next_index, pending, output_buffer, written, result,
          selection, normalised,
          transform_instructions, record_bytes, processed_result,
          to_invert, inverted_ranges,
          all_records, max_widths, aligned_results,
          trim_newline, max_index_seen, taken>>

cfgVars == <<input_mode, strict_return, worker_count>>
readerVars == <<rpc, index, batch, batch_bytes, input, eof, raw_ends>>
workerVars == <<wpc, wchunk>>
collectorVars == <<cpc, next_index, pending, output_buffer, written, result, reordered>>
resolverVars == <<selection, normalised>>
transformVars == <<transform_instructions, record_bytes, processed_result>>
invertVars == <<to_invert, inverted_ranges>>
alignVars == <<all_records, max_widths, aligned_results>>
trimVars == <<trim_newline, max_index_seen, taken>>

(***************************************************************************)
(* Values.                                                                 *)
(***************************************************************************)
\* Result<Vec<u8>, String> of process_bytes / process_chars / process_fields,
\* or the thread's panic.
ProcOk(bytes) == [kind |-> "Ok", bytes |-> bytes, error |-> ""]
ProcErr(error) == [kind |-> "Err", bytes |-> <<>>, error |-> error]
ProcPanic == [kind |-> "Panic", bytes |-> <<>>, error |-> ""]

\* What processing record i can yield: an output naming the record, an empty
\* output, an error, or a panic of the worker thread.
ProcResults(i) == {ProcOk(<<97 + i>>), ProcOk(<<>>), ProcErr("bad record"), ProcPanic}

\* In whole-string mode the single record's output may itself end in a newline.
WholeResults == {ProcOk(<<97>>), ProcOk(<<97, NL>>), ProcOk(<<>>), ProcErr("bad record"), ProcPanic}

\* A record; res stands for its bytes: what processing them yields.
Record(i, term, res) ==
    [index |-> i, has_terminator |-> term, res |-> res]

OutputRecord(bytes, term) == [bytes |-> bytes, has_terminator |-> term]

ChunkOk(start, outputs) ==
    [kind |-> "Ok", start_index |-> start, outputs |-> outputs, index |-> 0, error |-> ""]
ChunkErr(i, error) ==
    [kind |-> "Err", start_index |-> 0, outputs |-> <<>>, index |-> i, error |-> error]

NoChunk == ChunkOk(0, <<>>)

Running == [status |-> "running", prefix |-> "", pos |-> 0, msg |-> ""]
Success == [status |-> "ok", prefix |-> "", pos |-> 0, msg |-> ""]
Failure(prefix, pos, msg) == [status |-> "err", prefix |-> prefix, pos |-> pos, msg |-> msg]

\* Option<usize> max_index_seen.
NoIndex == [is_some |-> FALSE, value |-> 0]
SomeIndex(i) == [is_some |-> TRUE, value |-> i]

\* The outputs removed from pending with their base_index and the offset
\* of the next one to write.
Taken(base, outputs, offset) == [base_index |-> base, outputs |-> outputs, offset |-> offset]
NoTaken == Taken(0, <<>>, 0)

(***************************************************************************)
(* Reader: read_input, with read_record, add_record_to_batch, flush_batch. *)
(***************************************************************************)
Alive == result.status = "running"

\* read_record on the bytes read_until appended to the buffer (bytes_read > 0):
\* has_terminator, and the record's bytes with the terminator (and, for \n, a
\* preceding \r) popped.
read_record(raw, terminator) ==
    LET has_terminator == raw[Len(raw)] = terminator
        popped == IF has_terminator THEN SubSeq(raw, 1, Len(raw) - 1) ELSE raw
        bytes == IF /\ has_terminator
                    /\ terminator = NL
                    /\ popped # <<>>
                    /\ popped[Len(popped)] = CR
                 THEN SubSeq(popped, 1, Len(popped) - 1)
                 ELSE popped
    IN [bytes |-> bytes, has_terminator |-> has_terminator]

\* read_record returned Some(record) in per-line or zero-terminated mode;
\* add_record_to_batch then pushes it and, once the byte quota is reached,
\* flush_batch sends the batch (a blocking send: the reader waits in "send").
\* A chunk without terminator was ended by the end of the input.
ReadUpTo(limit, raw, res) ==
    /\ Alive
    /\ rpc = "read"
    /\ input_mode # "WholeString"
    /\ ~eof
    /\ index < limit
    /\ LET read == read_record(raw, Terminator(input_mode))
           record == Record(index, read.has_terminator, res)
           bytes == batch_bytes + Len(read.bytes)
       IN /\ input' = Append(input, record)
          /\ raw_ends' = Append(raw_ends, raw[Len(raw)])
          /\ index' = index + 1
          /\ batch' = Append(batch, record)
          /\ batch_bytes' = bytes
          /\ eof' = (raw[Len(raw)] # Terminator(input_mode))
          /\ rpc' = IF bytes >= BatchQuota THEN "send" ELSE "read"
    /\ UNCHANGED <<cfgVars, trimVars, resolverVars, transformVars, invertVars, alignVars, recordQ, resultQ, workerVars, collectorVars>>

\* The inputs checked have up to MaxRecords records.
ReadRecord(raw, res) == ReadUpTo(MaxRecords, raw, res)

\* read_record returned None: flush_batch of what is left, then return.
\* flush_batch sends nothing when the batch is empty.
ReadEndSendsEmpty ==
    /\ Alive
    /\ rpc = "read"
    /\ input_mode # "WholeString"
    /\ eof' = TRUE
    /\ rpc' = "final_send"
    /\ UNCHANGED <<cfgVars, trimVars, resolverVars, transformVars, invertVars, alignVars, index, batch, batch_bytes, input, raw_ends,
                   recordQ, resultQ, workerVars, collectorVars>>
ReadEnd ==
    /\ Alive
    /\ rpc = "read"
    /\ input_mode # "WholeString"
    /\ eof' = TRUE
    /\ rpc' = IF batch = <<>> THEN "done" ELSE "final_send"
    /\ UNCHANGED <<cfgVars, trimVars, resolverVars, transformVars, invertVars, alignVars, index, batch, batch_bytes, input, raw_ends,
                   recordQ, resultQ, workerVars, collectorVars>>

\* Whole-string mode: the entire input is one record without terminator.
ReadWhole(res) ==
    /\ Alive
    /\ rpc = "read"
    /\ input_mode = "WholeString"
    /\ LET record == Record(index, FALSE, res)
       IN /\ input' = Append(input, record)
          /\ batch' = Append(batch, record)
    /\ eof' = TRUE
    /\ rpc' = "final_send"
    /\ UNCHANGED <<cfgVars, trimVars, resolverVars, transformVars, invertVars, alignVars, index, batch_bytes, raw_ends,
                   recordQ, resultQ, workerVars, collectorVars>>

\* record_sender.send(pending_batch) inside flush_batch: blocks while the
\* records queue is full.
SendBatch ==
    /\ Alive
    /\ rpc \in {"send", "final_send"}
    /\ Len(recordQ) < QueueCap
    /\ recordQ' = Append(recordQ, batch)
    /\ batch' = <<>>
    /\ batch_bytes' = 0
    /\ rpc' = IF rpc = "send" THEN "read" ELSE "done"
    /\ UNCHANGED <<cfgVars, trimVars, resolverVars, transformVars, invertVars, alignVars, index, input, eof, raw_ends, resultQ, workerVars, collectorVars>>

(***************************************************************************)
(* Workers: process_records.                                               *)
(***************************************************************************)
\* Mutant: the Err chunk of a failed record carries the strict_return
\* message whatever the error was.
RecordOutcomeLosesMessage(record) ==
    IF record.res.kind = "Ok"
    THEN IF strict_return /\ record.res.bytes = <<>>
         THEN [kind |-> "Err", chunk |-> ChunkErr(record.index, "strict return error: empty field")]
         ELSE [kind |-> "Ok", chunk |-> ChunkOk(0, <<OutputRecord(record.res.bytes, record.has_terminator)>>)]
    ELSE IF record.res.kind = "Err"
    THEN [kind |-> "Err", chunk |-> ChunkErr(record.index, "strict return error: empty field")]
    ELSE [kind |-> "Panic", chunk |-> NoChunk]

\* The match on processed_result for one record: an output to push, or the
\* Err chunk to send before returning.
RecordOutcome(record) ==
    IF record.res.kind = "Ok"
    THEN IF strict_return /\ record.res.bytes = <<>>
         THEN [kind |-> "Err", chunk |-> ChunkErr(record.index, "strict return error: empty field")]
         ELSE [kind |-> "Ok", chunk |-> ChunkOk(0, <<OutputRecord(record.res.bytes, record.has_terminator)>>)]
    ELSE IF record.res.kind = "Err"
    THEN [kind |-> "Err", chunk |-> ChunkErr(record.index, record.res.error)]
    ELSE [kind |-> "Panic", chunk |-> NoChunk]

\* The for loop over a batch's records from position k, batch_outputs so far
\* in outs: stops at the first record that fails.
RECURSIVE ProcessFrom(_, _, _)
ProcessFrom(record_batch, k, outs) ==
    IF k > Len(record_batch)
    THEN [kind |-> "Ok", chunk |-> ChunkOk(record_batch[1].index, outs)]
    ELSE LET o == RecordOutcome(record_batch[k])
         IN IF o.kind = "Ok"
            THEN ProcessFrom(record_batch, k + 1, outs \o o.chunk.outputs)
            ELSE o

ProcessBatch(record_batch) == ProcessFrom(record_batch, 1, <<>>)

\* record_receiver.recv() returned a batch; the worker processes it.  A panic
\* unwinds the thread, which sends nothing.  (The reader sends no empty batch.)
WorkerRecv(w) ==
    /\ Alive
    /\ wpc[w] = "recv"
    /\ recordQ # <<>>
    /\ recordQ' = Tail(recordQ)
    /\ LET o == ProcessBatch(Head(recordQ))
       IN IF o.kind = "Panic"
          THEN /\ wpc' = [wpc EXCEPT ![w] = "panicked"]
               /\ UNCHANGED wchunk
          ELSE /\ wpc' = [wpc EXCEPT ![w] = "send"]
               /\ wchunk' = [wchunk EXCEPT ![w] = o.chunk]
    /\ UNCHANGED <<cfgVars, trimVars, resolverVars, transformVars, invertVars, alignVars, readerVars, resultQ, collectorVars>>

\* result_sender.send(chunk): blocks while the results queue is full.  After
\* an Err chunk the worker returns; after an Ok chunk it loops.
WorkerSendLoops(w) ==
    /\ Alive
    /\ wpc[w] = "send"
    /\ Len(resultQ) < QueueCap
    /\ resultQ' = Append(resultQ, wchunk[w])
    /\ wpc' = [wpc EXCEPT ![w] = "recv"]
    /\ wchunk' = [wchunk EXCEPT ![w] = NoChunk]
    /\ UNCHANGED <<cfgVars, trimVars, resolverVars, transformVars, invertVars, alignVars, readerVars, recordQ, collectorVars>>
WorkerSend(w) ==
    /\ Alive
    /\ wpc[w] = "send"
    /\ Len(resultQ) < QueueCap
    /\ resultQ' = Append(resultQ, wchunk[w])
    /\ wpc' = [wpc EXCEPT ![w] = IF wchunk[w].kind = "Err" THEN "done" ELSE "recv"]
    /\ wchunk' = [wchunk EXCEPT ![w] = NoChunk]
    /\ UNCHANGED <<cfgVars, trimVars, resolverVars, transformVars, invertVars, alignVars, readerVars, recordQ, collectorVars>>

\* record_receiver.recv() returned Err: the queue is empty and the reader has
\* dropped its sender.
WorkerExit(w) ==
    /\ Alive
    /\ wpc[w] = "recv"
    /\ recordQ = <<>>
    /\ rpc = "done"
    /\ wpc' = [wpc EXCEPT ![w] = "done"]
    /\ UNCHANGED <<cfgVars, trimVars, resolverVars, transformVars, invertVars, alignVars, readerVars, recordQ, resultQ, wchunk, collectorVars>>

(***************************************************************************)
(* Collector: get_results, called by main after it has joined the reader.  *)
(***************************************************************************)
record_terminator ==
    CASE input_mode = "PerLine" -> <<NL>>
      [] input_mode = "ZeroTerminated" -> <<NUL>>
      [] OTHER -> <<>>

\* Mutant: the terminator is pushed whatever has_terminator says.
EmitAlways(output_record) ==
    output_record.bytes \o record_terminator

\* What one output record appends to output_buffer.
Emit(output_record) ==
    output_record.bytes \o
        (IF output_record.has_terminator THEN record_terminator ELSE <<>>)

\* The while loop over one chunk's outputs inside the receive loop: append,
\* flush_output once the threshold is reached, advance next_index.
RECURSIVE WriteOutputs(_, _, _)
WriteOutputs(outputs, offset, st) ==
    IF offset > Len(outputs)
    THEN st
    ELSE LET buf == st.buf \o Emit(outputs[offset])
             flush == Len(buf) >= FlushThreshold
         IN WriteOutputs(outputs, offset + 1,
                [next |-> st.next + 1,
                 buf |-> IF flush THEN <<>> ELSE buf,
                 out |-> IF flush THEN st.out \o buf ELSE st.out,
                 pend |-> st.pend])

MinKey(p) == CHOOSE k \in DOMAIN p : \A j \in DOMAIN p : k <= j
Without(p, k) == [j \in DOMAIN p \ {k} |-> p[j]]
Insert(p, k, v) == [j \in DOMAIN p \cup {k} |-> IF j = k THEN v ELSE p[j]]

\* Mutant: the first pending chunk is written without comparing its key with
\* next_index.
RECURSIVE FlushReadyUnordered(_)
FlushReadyUnordered(st) ==
    IF DOMAIN st.pend = {}
    THEN st
    ELSE FlushReadyUnordered(WriteOutputs(st.pend[MinKey(st.pend)], 1,
                       [st EXCEPT !.pend = Without(st.pend, MinKey(st.pend))]))

\* The inner `while let Some(&pending_index) = pending.keys().next()`: write
\* the maximal contiguous run that starts at next_index.
RECURSIVE FlushReady(_)
FlushReady(st) ==
    IF DOMAIN st.pend = {} \/ MinKey(st.pend) # st.next
    THEN st
    ELSE FlushReady(WriteOutputs(st.pend[st.next], 1,
                       [st EXCEPT !.pend = Without(st.pend, st.next)]))

\* The loop after the channel has closed: no threshold flush here.
RECURSIVE DrainClosed(_)
DrainClosed(st) ==
    IF st.next \notin DOMAIN st.pend
    THEN st
    ELSE LET outputs == st.pend[st.next]
             bytes == [k \in 1..Len(outputs) |-> Emit(outputs[k])]
             Cat[k \in 0..Len(outputs)] ==
                 IF k = 0 THEN <<>> ELSE Cat[k - 1] \o bytes[k]
         IN DrainClosed([next |-> st.next + Len(outputs),
                         buf |-> st.buf \o Cat[Len(outputs)],
                         out |-> st.out,
                         pend |-> Without(st.pend, st.next)])

CollectorState ==
    [next |-> next_index, buf |-> output_buffer, out |-> written, pend |-> pending]

\* Mutant: the position is the 0-based index.
FormatErrorZeroBased(chunk) ==
    CASE input_mode = "WholeString" -> Failure("", 0, chunk.error)
      [] input_mode = "PerLine" -> Failure("line", chunk.index, chunk.error)
      [] OTHER -> Failure("record", chunk.index, chunk.error)

\* The positional error of an Err chunk.
FormatError(chunk) ==
    CASE input_mode = "WholeString" -> Failure("", 0, chunk.error)
      [] input_mode = "PerLine" -> Failure("line", chunk.index + 1, chunk.error)
      [] OTHER -> Failure("record", chunk.index + 1, chunk.error)

\* main: reader_handle.join() returns Ok, then get_results starts.
MainJoin ==
    /\ Alive
    /\ cpc = "join"
    /\ rpc = "done"
    /\ cpc' = "recv"
    /\ UNCHANGED <<cfgVars, trimVars, resolverVars, transformVars, invertVars, alignVars, readerVars, recordQ, resultQ, workerVars,
                   next_index, pending, output_buffer, written, result, reordered>>

\* One iteration of `while let Ok(result) = result_receiver.recv()`.
CollectorRecv ==
    /\ Alive
    /\ cpc = "recv"
    /\ resultQ # <<>>
    /\ resultQ' = Tail(resultQ)
    /\ LET chunk == Head(resultQ)
       IN IF chunk.kind = "Err"
          THEN /\ result' = FormatError(chunk)
               /\ cpc' = "done"
               /\ UNCHANGED <<next_index, pending, output_buffer, written, reordered>>
          ELSE LET st == FlushReady([CollectorState EXCEPT
                                !.pend = Insert(pending, chunk.start_index, chunk.outputs)])
               IN /\ next_index' = st.next
                  /\ pending' = st.pend
                  /\ output_buffer' = st.buf
                  /\ written' = st.out
                  /\ reordered' = (reordered \/ chunk.start_index # next_index)
                  /\ UNCHANGED <<cpc, result>>
    /\ UNCHANGED <<cfgVars, trimVars, resolverVars, transformVars, invertVars, alignVars, readerVars, recordQ, workerVars>>

\* Mutant: chunks left pending are not looked at.
ClosedResultNoGapCheck(st, strict_bounds_sel) ==
    IF st.next = 0 /\ strict_return
    THEN Failure("", 0, "strict return check failed: no input received")
    ELSE IF st.next = 0 /\ strict_bounds_sel
    THEN Failure("", 0, "index out of bounds, must be between 1 and 0")
    ELSE Success

\* What get_results returns once the channel has closed and the contiguous
\* run is drained: the missing-record error, the no-input errors, or Ok.
ClosedResult(st, strict_bounds_sel) ==
    IF DOMAIN st.pend # {}
    THEN Failure("", st.next, "result stream ended early: missing record")
    ELSE IF st.next = 0 /\ strict_return
    THEN Failure("", 0, "strict return check failed: no input received")
    ELSE IF st.next = 0 /\ strict_bounds_sel
    THEN Failure("", 0, "index out of bounds, must be between 1 and 0")
    ELSE Success

\* recv() returned Err (queue empty, every worker gone): the code after the
\* receive loop, to the return.  count and strict_bounds_sel (strict_bounds
\* with a non-empty selection list) are the fields of output_instructions that
\* only this code reads.  "0" is written to the writer directly; the buffer
\* is flushed only on the way to Ok.
CollectorClosed(count, strict_bounds_sel) ==
    /\ Alive
    /\ cpc = "recv"
    /\ resultQ = <<>>
    /\ \A w \in Workers : wpc[w] \in {"done", "panicked", "unused"}
    /\ LET st == DrainClosed(CollectorState)
           res == ClosedResult(st, strict_bounds_sel)
           zero == IF DOMAIN st.pend = {} /\ st.next = 0 /\ count
                   THEN <<48>> ELSE <<>>
           newline == IF /\ input_mode = "WholeString"
                         /\ st.buf # <<>>
                         /\ st.buf[Len(st.buf)] # NL
                      THEN <<NL>> ELSE <<>>
       IN /\ next_index' = st.next
          /\ pending' = st.pend
          /\ result' = res
          /\ IF res = Success
             THEN /\ output_buffer' = <<>>
                  /\ written' = st.out \o zero \o st.buf \o newline
             ELSE /\ output_buffer' = st.buf
                  /\ written' = st.out \o zero
    /\ cpc' = "done"
    /\ UNCHANGED <<cfgVars, trimVars, resolverVars, transformVars, invertVars, alignVars, readerVars, recordQ, resultQ, workerVars, reordered>>

(***************************************************************************)
(* Selection resolver: resolve_index and normalise_selection.              *)
(***************************************************************************)
\* i32::MAX as usize.
MAX_SAFE_LEN == 2147483647

\* Result<i32, String> of resolve_index.
IndexOk(value) == [kind |-> "Ok", value |-> value, error |-> ""]
IndexErr(error) == [kind |-> "Err", value |-> 0, error |-> error]

\* Result<Option<(usize, usize)>, String> of normalise_selection.
SelSome(start, end) == [kind |-> "Some", start |-> start, end |-> end, error |-> ""]
SelNone == [kind |-> "None", start |-> 0, end |-> 0, error |-> ""]
SelErr(error) == [kind |-> "Err", start |-> 0, end |-> 0, error |-> error]
\* No call has returned yet.
SelPending == [kind |-> "Pending", start |-> 0, end |-> 0, error |-> ""]

\* `length as i32` (lengths below 2^32): the low 32 bits, read as signed.
as_i32(length) ==
    IF length <= MAX_SAFE_LEN THEN length ELSE (length - MAX_SAFE_LEN) - MAX_SAFE_LEN - 2

max(a, b) == IF a >= b THEN a ELSE b
min(a, b) == IF a <= b THEN a ELSE b
saturating_sub(a, b) == IF a >= b THEN a - b ELSE 0

resolve_index(raw_index, len) ==
    IF raw_index > 0
    THEN IndexOk(raw_index - 1)
    ELSE IF len > MAX_SAFE_LEN
    THEN IndexErr("input too large: {} fields exceeds maximum of {} fields. negative indices cannot be resolved for inputs this large")
    ELSE IndexOk(len + raw_index)

\* Mutant: an out-of-order selection has its ends swapped.
range_order_swapped(start, end, strict_range_order) ==
    SelSome(max(end, 0), max(start, 0))

\* `if start > end`: the range-order error, or the selection dropped.
range_order(start, end, strict_range_order) ==
    IF strict_range_order
    THEN SelErr("end index ({}) is less than start index ({}) in selection {}-{}")
    ELSE SelNone

\* Mutant: under strict bounds the ends are clamped into the sequence.
strict_bounds_clamped(raw_start, raw_end, start, end, length) ==
    SelSome(min(max(start, 0), saturating_sub(length, 1)),
            min(max(end, 0), saturating_sub(length, 1)))

\* The `if strict_bounds` branch, for start <= end.
strict_bounds_checked(raw_start, raw_end, start, end, length) ==
    IF length = 0
    THEN SelErr("strict bounds error: no valid fields to select")
    ELSE IF start < 0 \/ start >= as_i32(length)
    THEN IF raw_start = raw_end
         THEN SelErr("strict bounds error: index ({}) out of bounds, must be between 1 and {}")
         ELSE SelErr("strict bounds error: start index ({}) out of bounds, must be between 1 and {}")
    ELSE IF end < 0 \/ end >= as_i32(length)
    THEN SelErr("strict bounds error: end index ({}) out of bounds, must be between 1 and {}")
    ELSE SelSome(start, end)

\* Mutant: the end is not capped at the last unit.
lenient_end_uncapped(start, end, length, is_placeholder) ==
    IF end < 0
    THEN SelNone
    ELSE IF ~is_placeholder /\ start >= as_i32(length)
    THEN SelNone
    ELSE SelSome(max(start, 0), max(end, 0))

\* The lenient branch, for start <= end.
lenient_clamped(start, end, length, is_placeholder) ==
    IF end < 0
    THEN SelNone
    ELSE IF ~is_placeholder /\ start >= as_i32(length)
    THEN SelNone
    ELSE LET clamped_start ==
                 IF is_placeholder
                 THEN max(start, 0)
                 ELSE min(max(start, 0), as_i32(saturating_sub(length, 1)))
             clamped_end ==
                 IF is_placeholder
                 THEN max(end, 0)
                 ELSE min(max(end, 0), as_i32(saturating_sub(length, 1)))
         IN SelSome(clamped_start, clamped_end)

normalise_selection(raw_start, raw_end, length, is_placeholder, strict_bounds, strict_range_order) ==
    IF strict_bounds /\ (raw_start = 0 \/ raw_end = 0)
    THEN SelErr("selections are 1-based, 0 is an invalid index")
    ELSE LET start == resolve_index(raw_start, length)
             end == resolve_index(raw_end, length)
         IN IF start.kind = "Err" THEN SelErr(start.error)
            ELSE IF end.kind = "Err" THEN SelErr(end.error)
            ELSE IF start.value > end.value
            THEN range_order(start.value, end.value, strict_range_order)
            ELSE IF strict_bounds
            THEN strict_bounds_checked(raw_start, raw_end, start.value, end.value, length)
            ELSE lenient_clamped(start.value, end.value, length, is_placeholder)

\* The arguments of one call.
Selection(raw_start, raw_end, length, is_placeholder, strict_bounds, strict_range_order) ==
    [raw_start |-> raw_start, raw_end |-> raw_end, length |-> length,
     is_placeholder |-> is_placeholder, strict_bounds |-> strict_bounds,
     strict_range_order |-> strict_range_order]

NoSelection == Selection(1, 1, 0, FALSE, FALSE, FALSE)

\* normalise_selection is called on the arguments and returns.
CallNormaliseSelection ==
    /\ normalised = SelPending
    /\ normalised' = normalise_selection(selection.raw_start, selection.raw_end,
                        selection.length, selection.is_placeholder,
                        selection.strict_bounds, selection.strict_range_order)
    /\ UNCHANGED <<cfgVars, trimVars, readerVars, recordQ, resultQ, workerVars, collectorVars,
                   selection, transformVars, invertVars, alignVars>>

(***************************************************************************)
(* Selection lists: normalise_selections and invert_selections.            *)
(***************************************************************************)
RangesOk(ranges) == [kind |-> "Ok", ranges |-> ranges, error |-> ""]
RangesErr(error) == [kind |-> "Err", ranges |-> <<>>, error |-> error]

\* The for loop of normalise_selections from selection k, with the ranges
\* pushed so far: a dropped selection is skipped, the first error is returned.
RECURSIVE normalise_from(_, _, _, _, _, _, _)
normalise_from(selections, k, ranges, length, is_placeholder, is_strict_bounds, is_strict_range_order) ==
    IF k > Len(selections)
    THEN RangesOk(ranges)
    ELSE LET r == normalise_selection(selections[k][1], selections[k][2], length,
                      is_placeholder, is_strict_bounds, is_strict_range_order)
         IN IF r.kind = "Err"
            THEN RangesErr(r.error)
            ELSE normalise_from(selections, k + 1,
                     IF r.kind = "Some" THEN Append(ranges, <<r.start, r.end>>) ELSE ranges,
                     length, is_placeholder, is_strict_bounds, is_strict_range_order)

normalise_selections(selections, length, is_placeholder, is_strict_bounds, is_strict_range_order) ==
    normalise_from(selections, 1, <<>>, length, is_placeholder, is_strict_bounds,
                   is_strict_range_order)

\* The comparator of sort_by: start, then end.
range_le(a, b) == a[1] < b[1] \/ (a[1] = b[1] /\ a[2] <= b[2])

\* Insertion of one range into a sorted list.
RECURSIVE sorted_insert(_, _)
sorted_insert(sorted, r) ==
    IF sorted = <<>> THEN <<r>>
    ELSE IF range_le(r, Head(sorted)) THEN <<r>> \o sorted
    ELSE <<Head(sorted)>> \o sorted_insert(Tail(sorted), r)

RECURSIVE sort_by(_)
sort_by(ranges) ==
    IF ranges = <<>> THEN <<>>
    ELSE sorted_insert(sort_by(SubSeq(ranges, 1, Len(ranges) - 1)), ranges[Len(ranges)])

\* The merge loop: a range that starts at or before the last merged end
\* extends that range.
RECURSIVE merge_from(_, _, _)
merge_from(sorted, k, merged) ==
    IF k > Len(sorted)
    THEN merged
    ELSE LET r == sorted[k]
             n == Len(merged)
         IN IF n > 0 /\ r[1] <= merged[n][2]
            THEN merge_from(sorted, k + 1,
                     [merged EXCEPT ![n] = <<merged[n][1], max(merged[n][2], r[2])>>])
            ELSE merge_from(sorted, k + 1, Append(merged, r))

\* The complement loop, with invert_pointer and the ranges pushed so far.
RECURSIVE inverted_from(_, _, _, _, _)
inverted_from(merged, k, invert_pointer, inverted, length) ==
    IF k > Len(merged)
    THEN IF invert_pointer < length
         THEN Append(inverted, <<invert_pointer, saturating_sub(length, 1)>>)
         ELSE inverted
    ELSE inverted_from(merged, k + 1, merged[k][2] + 1,
             IF merged[k][1] > invert_pointer
             THEN Append(inverted, <<invert_pointer, saturating_sub(merged[k][1], 1)>>)
             ELSE inverted,
             length)

invert_selections(normalised_selections, length) ==
    inverted_from(merge_from(sort_by(normalised_selections), 1, <<>>), 1, 0, <<>>, length)

\* The arguments of a call, and the list the calls made so far have returned.
ToInvert(ranges, length) == [ranges |-> ranges, length |-> length]
Inverted(calls, ranges) == [calls |-> calls, ranges |-> ranges]
NoInversion == ToInvert(<<>>, 0)

\* invert_selections is called: first on the list given, then on what the
\* first call returned.
CallInvertSelections ==
    /\ inverted_ranges.calls < 2
    /\ inverted_ranges' =
          Inverted(inverted_ranges.calls + 1,
                   invert_selections(IF inverted_ranges.calls = 0
                                     THEN to_invert.ranges
                                     ELSE inverted_ranges.ranges,
                                     to_invert.length))
    /\ UNCHANGED <<cfgVars, trimVars, readerVars, recordQ, resultQ, workerVars, collectorVars,
                   resolverVars, transformVars, alignVars, to_invert>>

(***************************************************************************)
(* Composers: process_bytes, process_chars, process_fields.                *)
(***************************************************************************)
COMMA == 44
SEMICOLON == 59
SPACE == 32
QUESTION == 63
PIPE == 124

\* Option<Vec<u8>> placeholder.
NoPlaceholder == [is_some |-> FALSE, bytes |-> <<>>]
SomePlaceholder(bytes) == [is_some |-> TRUE, bytes |-> bytes]

\* Option<JoinMode>: absent, a string, or one of the named modes.
NoJoin == [mode |-> "Absent", bytes |-> <<>>]
JoinString(bytes) == [mode |-> "String", bytes |-> bytes]
JoinMode(mode) == [mode |-> mode, bytes |-> <<>>]

Field(text, delimiter) == [text |-> text, delimiter |-> delimiter]

\* usize::to_string of a count, as bytes.
RECURSIVE to_string(_)
to_string(n) ==
    IF n < 10 THEN <<48 + n>> ELSE to_string(n \div 10) \o <<48 + (n % 10)>>

\* The indices of selection.0..=selection.1.
range_indices(sel) == [k \in 1..(sel[2] - sel[1] + 1) |-> sel[1] + k - 1]

\* Every index the two nested for loops visit, in order.
RECURSIVE loop_indices(_)
loop_indices(selections) ==
    IF selections = <<>> THEN <<>>
    ELSE range_indices(Head(selections)) \o loop_indices(Tail(selections))

\* `let selections = ...`: the whole sequence for an empty user list, the
\* normalised list, or its complement.
selected_ranges(ti, normalised_selections, length) ==
    IF ti.selections = <<>>
    THEN <<<<0, saturating_sub(length, 1)>>>>
    ELSE IF ~ti.invert
    THEN normalised_selections
    ELSE invert_selections(normalised_selections, length)

\* The output loop of process_bytes from visit k.
RECURSIVE bytes_from(_, _, _, _, _)
bytes_from(ti, bytes, indices, k, output) ==
    IF k > Len(indices)
    THEN output
    ELSE LET i == indices[k]
         IN bytes_from(ti, bytes, indices, k + 1,
                output \o (IF i < Len(bytes) THEN <<bytes[i + 1]>>
                           ELSE IF ti.placeholder.is_some THEN ti.placeholder.bytes
                           ELSE <<>>))

process_bytes(ti, bytes) ==
    LET byte_length == Len(bytes)
    IN IF ti.count
       THEN ProcOk(to_string(byte_length))
       ELSE IF byte_length = 0
       THEN IF ti.strict_return
            THEN ProcErr("strict returns error: empty record")
            ELSE IF ti.strict_bounds /\ ti.selections # <<>>
            THEN ProcErr("strict bounds error: empty record")
            ELSE ProcOk(<<>>)
       ELSE LET normalised_selections ==
                    normalise_selections(ti.selections, byte_length, ti.placeholder.is_some,
                                         ti.strict_bounds, ti.strict_range_order)
            IN IF normalised_selections.kind = "Err"
               THEN ProcErr(normalised_selections.error)
               ELSE LET selections == selected_ranges(ti, normalised_selections.ranges, byte_length)
                        output == bytes_from(ti, bytes, loop_indices(selections), 1, <<>>)
                    IN IF ti.strict_return /\ output = <<>>
                       THEN ProcErr("strict returns error: no valid output")
                       ELSE ProcOk(output)

\* text.graphemes(true) of a record of ASCII letters and commas: one
\* grapheme cluster per byte.
graphemes(bytes) == [k \in 1..Len(bytes) |-> <<bytes[k]>>]

\* The output loop of process_chars from visit k: a join string follows
\* every visit but the last.
RECURSIVE chars_from(_, _, _, _, _)
chars_from(ti, units, indices, k, output) ==
    IF k > Len(indices)
    THEN output
    ELSE LET i == indices[k]
             unit == IF i < Len(units) THEN units[i + 1]
                     ELSE IF ti.placeholder.is_some THEN ti.placeholder.bytes
                     ELSE <<>>
             join == IF k # Len(indices) /\ ti.join.mode = "String"
                     THEN ti.join.bytes ELSE <<>>
         IN chars_from(ti, units, indices, k + 1, output \o unit \o join)

process_chars(ti, bytes) ==
    LET units == graphemes(bytes)
        grapheme_count == Len(units)
    IN IF ti.count
       THEN ProcOk(to_string(grapheme_count))
       ELSE IF grapheme_count = 0
       THEN IF ti.strict_return
            THEN ProcErr("strict return error: empty record")
            ELSE IF ti.strict_bounds /\ ti.selections # <<>>
            THEN ProcErr("strict bounds error: empty record")
            ELSE ProcOk(<<>>)
       ELSE LET normalised_selections ==
                    normalise_selections(ti.selections, grapheme_count, ti.placeholder.is_some,
                                         ti.strict_bounds, ti.strict_range_order)
            IN IF normalised_selections.kind = "Err"
               THEN ProcErr(normalised_selections.error)
               ELSE LET selections == selected_ranges(ti, normalised_selections.ranges, grapheme_count)
                        output == chars_from(ti, units, loop_indices(selections), 1, <<>>)
                    IN IF ti.strict_return /\ output = <<>>
                       THEN ProcErr("strict returns error: no valid output")
                       ELSE ProcOk(output)

\* The bytes the delimiter regex `[,;]` matches: every match is one byte.
Delimiters == {COMMA, SEMICOLON}

\* The find_iter loop for the delimiter `[,;]` from byte k, with the cursor
\* and the fields pushed so far, then the push of the final field: dropped
\* when it is empty in whole-string mode.
\* The push of the final field: not made when it is empty in whole-string
\* mode.
push_final_unless_empty(ti, fields, final_text) ==
    IF final_text # <<>> THEN Append(fields, Field(final_text, <<>>)) ELSE fields
push_final(ti, fields, final_text) ==
    IF final_text # <<>> \/ ti.input_mode # "WholeString"
    THEN Append(fields, Field(final_text, <<>>))
    ELSE fields

RECURSIVE split_from(_, _, _, _, _)
split_from(ti, text, k, cursor, fields) ==
    IF k > Len(text)
    THEN push_final(ti, fields, SubSeq(text, cursor + 1, Len(text)))
    ELSE IF text[k] \in Delimiters
    THEN split_from(ti, text, k + 1, k,
             Append(fields, Field(SubSeq(text, cursor + 1, k - 1), <<text[k]>>)))
    ELSE split_from(ti, text, k + 1, cursor, fields)

has_text(field) == field.text # <<>>
has_delimiter(field) == field.delimiter # <<>>

\* The unit sequence of a field-mode record.
split_fields_unfiltered(ti, bytes) == split_from(ti, bytes, 1, 0, <<>>)
split_fields(ti, bytes) ==
    LET fields == split_from(ti, bytes, 1, 0, <<>>)
    IN IF ti.skip_empty THEN SelectSeq(fields, has_text) ELSE fields

\* fields.iter().find(..) and fields.iter().rev().find(..): the first and the
\* last non-empty delimiter, or b"".
first_delimiter(fields) ==
    LET found == SelectSeq(fields, has_delimiter)
    IN IF found = <<>> THEN <<>> ELSE found[1].delimiter
last_delimiter(fields) ==
    LET found == SelectSeq(fields, has_delimiter)
    IN IF found = <<>> THEN <<>> ELSE found[Len(found)].delimiter

\* `let join: &[u8] = match &transform_instructions.join`.
join_bytes_next_first(ti, fields, current_delimiter, next_delimiter) ==
    LET or_space(delimiter) == IF delimiter # <<>> THEN delimiter ELSE <<SPACE>>
    IN CASE ti.join.mode = "String" -> ti.join.bytes
         [] ti.join.mode = "AfterPrevious" -> or_space(current_delimiter)
         [] ti.join.mode = "BeforeNext" -> or_space(next_delimiter)
         [] ti.join.mode = "First" -> or_space(first_delimiter(fields))
         [] ti.join.mode = "Last" -> or_space(last_delimiter(fields))
         [] ti.join.mode = "Space" -> <<SPACE>>
         [] ti.join.mode = "None" -> <<>>
         [] OTHER -> IF next_delimiter # <<>> THEN next_delimiter
                     ELSE IF current_delimiter # <<>> THEN current_delimiter
                     ELSE or_space(first_delimiter(fields))
join_bytes(ti, fields, current_delimiter, next_delimiter) ==
    LET or_space(delimiter) == IF delimiter # <<>> THEN delimiter ELSE <<SPACE>>
    IN CASE ti.join.mode = "String" -> ti.join.bytes
         [] ti.join.mode = "AfterPrevious" -> or_space(current_delimiter)
         [] ti.join.mode = "BeforeNext" -> or_space(next_delimiter)
         [] ti.join.mode = "First" -> or_space(first_delimiter(fields))
         [] ti.join.mode = "Last" -> or_space(last_delimiter(fields))
         [] ti.join.mode = "Space" -> <<SPACE>>
         [] ti.join.mode = "None" -> <<>>
         [] OTHER -> IF current_delimiter # <<>> THEN current_delimiter
                     ELSE IF next_delimiter # <<>> THEN next_delimiter
                     ELSE or_space(first_delimiter(fields))

\* Alignment padding after the join: spaces up to the widest field at this
\* field_position.
padding(ti, fields, field_widths, field_position, field_index) ==
    IF field_position < Len(field_widths)
    THEN LET current_field_width ==
                 IF field_index < Len(fields) THEN Len(fields[field_index + 1].text)
                 ELSE IF ti.placeholder.is_some THEN Len(ti.placeholder.bytes)
                 ELSE 0
         IN [k \in 1..saturating_sub(field_widths[field_position + 1], current_field_width)
                |-> SPACE]
    ELSE <<>>

\* The state of the output loop of process_fields.
Composed(output, strict_return_passed, field_position, panicked) ==
    [output |-> output, strict_return_passed |-> strict_return_passed,
     field_position |-> field_position, panicked |-> panicked]

\* The output loop of process_fields from visit k.  fields[field_index] for
\* the current delimiter is an unchecked index: out of range, the thread
\* panics.
RECURSIVE fields_from(_, _, _, _, _, _)
fields_from(ti, fields, field_widths, indices, k, st) ==
    IF k > Len(indices)
    THEN st
    ELSE LET field_index == indices[k]
             has_data == field_index < Len(fields) \/ (ti.placeholder.is_some /\ ~ti.invert)
             text == IF field_index < Len(fields) THEN fields[field_index + 1].text
                     ELSE IF ti.placeholder.is_some THEN ti.placeholder.bytes
                     ELSE <<>>
             passed == IF field_index < Len(fields)
                       THEN st.strict_return_passed \/ fields[field_index + 1].text # <<>>
                       ELSE st.strict_return_passed \/ ti.placeholder.is_some
             is_last == k = Len(indices)
         IN IF ~has_data
            THEN fields_from(ti, fields, field_widths, indices, k + 1, st)
            ELSE IF is_last
            THEN fields_from(ti, fields, field_widths, indices, k + 1,
                     Composed(st.output \o text, passed, st.field_position, FALSE))
            ELSE IF field_index >= Len(fields)
            THEN Composed(st.output \o text, passed, st.field_position, TRUE)
            ELSE LET current_delimiter == fields[field_index + 1].delimiter
                     next_delimiter == IF field_index < Len(fields) - 1
                                       THEN fields[field_index + 2].delimiter
                                       ELSE <<>>
                 IN fields_from(ti, fields, field_widths, indices, k + 1,
                        Composed(st.output \o text
                                     \o join_bytes(ti, fields, current_delimiter, next_delimiter)
                                     \o padding(ti, fields, field_widths, st.field_position,
                                                field_index),
                                 passed, st.field_position + 1, FALSE))

process_fields(ti, bytes, field_widths) ==
    LET fields == split_fields(ti, bytes)
    IN IF ti.count
       THEN ProcOk(to_string(Len(fields)))
       ELSE IF fields = <<>>
       THEN ProcOk(<<>>)
       ELSE LET normalised_selections ==
                    normalise_selections(ti.selections, Len(fields), ti.placeholder.is_some,
                                         ti.strict_bounds, ti.strict_range_order)
            IN IF normalised_selections.kind = "Err"
               THEN ProcErr(normalised_selections.error)
               ELSE LET selections == selected_ranges(ti, normalised_selections.ranges, Len(fields))
                        st == fields_from(ti, fields, field_widths, loop_indices(selections), 1,
                                          Composed(<<>>, FALSE, 0, FALSE))
                    IN IF st.panicked
                       THEN ProcPanic
                       ELSE IF ti.strict_return /\ ~st.strict_return_passed
                       THEN ProcErr("strict returns error: no valid output")
                       ELSE ProcOk(st.output)

\* transform_instructions, as far as the composers read it.
TransformInstructions(selection_mode, selections, placeholder, invert, strict_bounds, strict_range_order, strict_return_flag) ==
    [input_mode |-> "PerLine", selection_mode |-> selection_mode,
     selections |-> selections, invert |-> invert, skip_empty |-> FALSE,
     placeholder |-> placeholder, strict_return |-> strict_return_flag,
     strict_bounds |-> strict_bounds, strict_range_order |-> strict_range_order,
     count |-> FALSE, join |-> NoJoin]

NoInstructions ==
    TransformInstructions("Bytes", <<>>, NoPlaceholder, FALSE, FALSE, FALSE, FALSE)

\* No call has returned yet.
ProcPending == [kind |-> "Pending", bytes |-> <<>>, error |-> ""]

\* The instructions with the options TransformInstructions leaves at their
\* defaults set as given.
Instructions(ti, mode, skip_empty, count, join) ==
    [ti EXCEPT !.input_mode = mode, !.skip_empty = skip_empty, !.count = count, !.join = join]

\* The match on selection_mode in process_records.
process_record(ti, bytes, field_widths) ==
    CASE ti.selection_mode = "Bytes" -> process_bytes(ti, bytes)
      [] ti.selection_mode = "Chars" -> process_chars(ti, bytes)
      [] OTHER -> process_fields(ti, bytes, field_widths)

\* The match on processed_result in process_records: under strict_return an
\* empty Ok becomes an error.
matched_without_empty_check(ti, processed) == processed
matched_result(ti, processed) ==
    IF processed.kind = "Ok" /\ ti.strict_return /\ processed.bytes = <<>>
    THEN ProcErr("strict return error: empty field")
    ELSE processed

\* The match on selection_mode in process_records: the record is processed
\* and the call returns (or the thread panics).
ProcessRecord ==
    /\ processed_result = ProcPending
    /\ processed_result' = process_record(transform_instructions, record_bytes, <<>>)
    /\ UNCHANGED <<cfgVars, trimVars, readerVars, recordQ, resultQ, workerVars, collectorVars,
                   resolverVars, invertVars, alignVars, transform_instructions, record_bytes>>

\* One record in the for loop of process_records: processed, and its
\* result matched.
ProcessAndMatch ==
    /\ processed_result = ProcPending
    /\ processed_result' =
          matched_result(transform_instructions,
                         process_record(transform_instructions, record_bytes, <<>>))
    /\ UNCHANGED <<cfgVars, trimVars, readerVars, recordQ, resultQ, workerVars, collectorVars,
                   resolverVars, invertVars, alignVars, transform_instructions, record_bytes>>

(***************************************************************************)
(* The align path: read_input buffers every record, scans the widest field *)
(* of every emission position, and attaches the widths to each record.     *)
(***************************************************************************)
\* Option<Vec<usize>> field_widths of the records read.
NotScanned == [is_some |-> FALSE, widths |-> <<>>]
Scanned(widths) == [is_some |-> TRUE, widths |-> widths]

\* display_width of bytes that hold one-column characters of one or two
\* bytes and no escape sequence: the number of characters, that is of bytes
\* that are not UTF-8 continuation bytes.
IsContinuation(b) == b >= 128 /\ b < 192
NotContinuation(b) == ~IsContinuation(b)
display_width(bytes) == Len(SelectSeq(bytes, NotContinuation))

\* The loop over the indices one record's selections visit, from visit k:
\* max_widths grows to position_index + 1 and keeps the larger width.
RECURSIVE widths_from(_, _, _, _, _, _)
widths_from(ti, fields, indices, k, position_index, widths) ==
    IF k > Len(indices)
    THEN widths
    ELSE LET field_index == indices[k]
         IN IF field_index >= Len(fields) /\ ~(ti.placeholder.is_some /\ ~ti.invert)
            THEN widths_from(ti, fields, indices, k + 1, position_index, widths)
            ELSE LET field_width ==
                         IF field_index < Len(fields)
                         THEN display_width(fields[field_index + 1].text)
                         ELSE display_width(ti.placeholder.bytes)
                     resized ==
                         IF position_index >= Len(widths)
                         THEN widths \o [j \in 1..(position_index + 1 - Len(widths)) |-> 0]
                         ELSE widths
                 IN widths_from(ti, fields, indices, k + 1, position_index + 1,
                        [resized EXCEPT ![position_index + 1] = max(@, field_width)])

\* The loop over the records from record n: a record with no field or with
\* selections the resolver rejects is skipped.
RECURSIVE largest_from(_, _, _, _)
largest_from(ti, records, n, widths) ==
    IF n > Len(records)
    THEN widths
    ELSE LET fields == split_fields(ti, records[n])
             normalised_selections ==
                 normalise_selections(ti.selections, Len(fields), ti.placeholder.is_some,
                                      ti.strict_bounds, ti.strict_range_order)
         IN IF fields = <<>> \/ normalised_selections.kind = "Err"
            THEN largest_from(ti, records, n + 1, widths)
            ELSE largest_from(ti, records, n + 1,
                     widths_from(ti, fields,
                                 loop_indices(selected_ranges(ti, normalised_selections.ranges,
                                                              Len(fields))),
                                 1, 0, widths))

\* max_widths, the first of the two lists returned.
get_largest_field_widths(records, ti) == largest_from(ti, records, 1, <<>>)

\* read_input has buffered all_records: the widths are scanned and attached
\* to every record.
ScanFieldWidths ==
    /\ ~max_widths.is_some
    /\ max_widths' = Scanned(get_largest_field_widths(all_records, transform_instructions))
    /\ UNCHANGED <<cfgVars, trimVars, readerVars, recordQ, resultQ, workerVars, collectorVars,
                   resolverVars, invertVars, transformVars, all_records, aligned_results>>

\* A worker processes the next of the buffered records with the widths
\* attached to it.
ProcessAligned ==
    /\ max_widths.is_some
    /\ Len(aligned_results) < Len(all_records)
    /\ aligned_results' =
          Append(aligned_results,
                 matched_result(transform_instructions,
                                process_record(transform_instructions,
                                               all_records[Len(aligned_results) + 1],
                                               max_widths.widths)))
    /\ UNCHANGED <<cfgVars, trimVars, readerVars, recordQ, resultQ, workerVars, collectorVars,
                   resolverVars, invertVars, transformVars, all_records, max_widths>>

(***************************************************************************)
(* The pipeline.                                                           *)
(***************************************************************************)
\* The threads and channels as main has just set them up.
PipelineStart ==
    /\ rpc = "read"
    /\ index = 0
    /\ batch = <<>>
    /\ batch_bytes = 0
    /\ input = <<>>
    /\ raw_ends = <<>>
    /\ reordered = FALSE
    /\ eof = FALSE
    /\ recordQ = <<>>
    /\ resultQ = <<>>
    /\ wpc = [w \in Workers |-> IF w <= worker_count THEN "recv" ELSE "unused"]
    /\ wchunk = [w \in Workers |-> NoChunk]
    /\ cpc = "join"
    /\ next_index = 0
    /\ pending = <<>>
    /\ output_buffer = <<>>
    /\ written = <<>>
    /\ result = Running
    /\ max_index_seen = NoIndex
    /\ taken = NoTaken

\* No call of normalise_selection, no call of a composer.
ResolverIdle == selection = NoSelection /\ normalised = SelPending
TransformIdle ==
    /\ transform_instructions = NoInstructions
    /\ record_bytes = <<>>
    /\ processed_result = ProcPending

InvertIdle == to_invert = NoInversion /\ inverted_ranges = Inverted(0, <<>>)

\* The align path has read nothing.
AlignIdle == all_records = <<>> /\ max_widths = NotScanned /\ aligned_results = <<>>

Init ==
    /\ input_mode \in InputModes
    /\ strict_return \in BOOLEAN
    /\ worker_count \in Workers
    /\ trim_newline = FALSE
    /\ PipelineStart
    /\ ResolverIdle
    /\ TransformIdle
    /\ InvertIdle
    /\ AlignIdle

Next ==
    \/ \E raw \in RawChunks(Terminator(input_mode)), res \in ProcResults(index) :
            ReadRecord(raw, res)
    \/ ReadEnd
    \/ \E res \in WholeResults : ReadWhole(res)
    \/ SendBatch
    \/ \E w \in Workers : WorkerRecv(w)
    \/ \E w \in Workers : WorkerSend(w)
    \/ \E w \in Workers : WorkerExit(w)
    \/ MainJoin
    \/ CollectorRecv
    \/ \E count \in BOOLEAN, strict_bounds_sel \in BOOLEAN :
            CollectorClosed(count, strict_bounds_sel)

Spec == Init /\ [][Next]_vars

(***************************************************************************)
(* The pipeline in per-line mode only.                                     *)
(***************************************************************************)
InitLines ==
    /\ Init
    /\ input_mode = "PerLine"

NextLines ==
    \/ \E raw \in RawChunks(NL), res \in ProcResults(index) : ReadRecord(raw, res)
    \/ ReadEnd
    \/ SendBatch
    \/ \E w \in Workers : WorkerRecv(w)
    \/ \E w \in Workers : WorkerSend(w)
    \/ \E w \in Workers : WorkerExit(w)
    \/ MainJoin
    \/ CollectorRecv
    \/ \E count \in BOOLEAN, strict_bounds_sel \in BOOLEAN :
            CollectorClosed(count, strict_bounds_sel)

SpecLines == InitLines /\ [][NextLines]_vars

(***************************************************************************)
(* The pipeline on a longer input of per-line records that all succeed:    *)
(* up to MaxBacklog lines of one byte or of a whole batch.                 *)
(***************************************************************************)
BacklogChunks == {Body(len) \o <<NL>> : len \in RecLens}

InitBacklog ==
    /\ Init
    /\ input_mode = "PerLine"
    /\ strict_return = FALSE

NextBacklog ==
    \/ \E raw \in BacklogChunks : ReadUpTo(MaxBacklog, raw, ProcOk(<<97 + index>>))
    \/ ReadEnd
    \/ SendBatch
    \/ \E w \in Workers : WorkerRecv(w)
    \/ \E w \in Workers : WorkerSend(w)
    \/ \E w \in Workers : WorkerExit(w)
    \/ MainJoin
    \/ CollectorRecv
    \/ \E count \in BOOLEAN, strict_bounds_sel \in BOOLEAN :
            CollectorClosed(count, strict_bounds_sel)

SpecBacklog == InitBacklog /\ [][NextBacklog]_vars

(***************************************************************************)
(* The selection resolver on its own: every call of normalise_selection    *)
(* with raw indices in -MaxRaw .. MaxRaw on 0 .. MaxLen units.             *)
(***************************************************************************)
RawIndices == (0 - MaxRaw)..MaxRaw
Lengths == 0..MaxLen

\* The pipeline, held at its start while a function is called on its own.
PipelineHeld ==
    /\ input_mode = "PerLine"
    /\ strict_return = FALSE
    /\ worker_count = 1
    /\ trim_newline = FALSE
    /\ PipelineStart

InitResolver ==
    /\ PipelineHeld
    /\ InvertIdle
    /\ AlignIdle
    /\ TransformIdle
    /\ selection \in {Selection(raw_start, raw_end, length, is_placeholder, strict_bounds,
                                 strict_range_order) :
                          raw_start \in RawIndices, raw_end \in RawIndices, length \in Lengths,
                          is_placeholder \in BOOLEAN, strict_bounds \in BOOLEAN,
                          strict_range_order \in BOOLEAN}
    /\ normalised = SelPending

NextResolver == CallNormaliseSelection

SpecResolver == InitResolver /\ [][NextResolver]_vars

(***************************************************************************)
(* The composers on their own: every record of up to MaxBytes letters and  *)
(* commas, processed under every list of up to MaxSelections selections.   *)
(***************************************************************************)
\* The letter at byte k of a record: it names its position.
Letter(k) == 96 + k
RecordsOfLen(n) ==
    {[k \in 1..n |-> IF k \in commas THEN COMMA ELSE Letter(k)] : commas \in SUBSET (1..n)}
Records == UNION {RecordsOfLen(n) : n \in 0..MaxBytes}

\* A raw index beyond the last unit of every record.
Far == MaxBytes + 2
\* The first unit, the last, a range running past the end, an index past the
\* end, a range out of order.
RawSelections == {<<1, 1>>, <<0 - 1, 0 - 1>>, <<2, Far>>, <<Far, Far>>, <<2, 1>>}
SelectionLists == UNION {[1..n -> RawSelections] : n \in 0..MaxSelections}
SelectionModes == {"Bytes", "Chars", "Fields"}
Placeholders == {NoPlaceholder, SomePlaceholder(<<QUESTION>>)}

InitTransform ==
    /\ PipelineHeld
    /\ InvertIdle
    /\ AlignIdle
    /\ ResolverIdle
    /\ transform_instructions \in
          {TransformInstructions(selection_mode, selections, placeholder, invert,
                                 strict_bounds, strict_range_order, strict_return_flag) :
              selection_mode \in SelectionModes, selections \in SelectionLists,
              placeholder \in Placeholders, invert \in BOOLEAN, strict_bounds \in BOOLEAN,
              strict_range_order \in BOOLEAN, strict_return_flag \in BOOLEAN}
    /\ record_bytes \in Records
    /\ processed_result = ProcPending

NextTransform == ProcessRecord

SpecTransform == InitTransform /\ [][NextTransform]_vars

(***************************************************************************)
(* One record in a worker under every option: every record of up to       *)
(* MaxBytes letters, commas and semicolons; counted or composed in every   *)
(* input mode, and joined under every join policy.                         *)
(***************************************************************************)
MixedRecordsOfLen(n) ==
    {[k \in 1..n |-> IF b[k] = 0 THEN Letter(k) ELSE b[k]] : b \in [1..n -> {0} \cup Delimiters]}
MixedRecords == UNION {MixedRecordsOfLen(n) : n \in 0..MaxBytes}

\* No selection, the invalid index 0, a range out of order, an index past
\* the end, the first unit.
OptionSelections == {<<>>, <<<<0, 0>>>>, <<<<2, 1>>>>, <<<<Far, Far>>>>, <<<<1, 1>>>>}
OptionCalls ==
    {Instructions(TransformInstructions(selection_mode, selections, placeholder, FALSE,
                                        strict_bounds, strict_range_order, strict_return_flag),
                  mode, skip_empty, count, NoJoin) :
        selection_mode \in SelectionModes, selections \in OptionSelections,
        placeholder \in Placeholders, strict_bounds \in BOOLEAN,
        strict_range_order \in BOOLEAN, strict_return_flag \in BOOLEAN,
        mode \in InputModes, skip_empty \in BOOLEAN, count \in BOOLEAN}

JoinPolicies ==
    {NoJoin, JoinString(<<PIPE>>)} \cup
    {JoinMode(mode) : mode \in {"Auto", "AfterPrevious", "BeforeNext", "First", "Last",
                                 "Space", "None"}}
\* Single fields and a range, inside every record of three fields.
JoinSelections == {<<1, 1>>, <<2, 2>>, <<3, 3>>, <<1, 2>>}
JoinSelectionLists == UNION {[1..n -> JoinSelections] : n \in 0..MaxSelections}
JoinCalls ==
    {Instructions(TransformInstructions("Fields", selections, NoPlaceholder, FALSE,
                                        FALSE, FALSE, FALSE),
                  "PerLine", skip_empty, FALSE, join) :
        selections \in JoinSelectionLists, skip_empty \in BOOLEAN, join \in JoinPolicies}

InitOptions ==
    /\ PipelineHeld
    /\ InvertIdle
    /\ AlignIdle
    /\ ResolverIdle
    /\ transform_instructions \in OptionCalls \cup JoinCalls
    /\ record_bytes \in MixedRecords
    /\ processed_result = ProcPending

NextOptions == ProcessAndMatch

SpecOptions == InitOptions /\ [][NextOptions]_vars

(***************************************************************************)
(* The align path on its own: up to MaxAligned records of up to MaxBytes   *)
(* characters (a letter, a two-byte letter, a comma), joined with `|`.     *)
(***************************************************************************)
\* `a`, `e` with an acute accent (two bytes, one column), and the delimiter.
AlignCharacters == {<<97>>, <<195, 169>>, <<COMMA>>}
RECURSIVE Flatten(_)
Flatten(characters) ==
    IF characters = <<>> THEN <<>> ELSE Head(characters) \o Flatten(Tail(characters))
AlignRecords == UNION {{Flatten(c) : c \in [1..n -> AlignCharacters]} : n \in 0..MaxBytes}
\* Everything, two fields in order, two fields swapped, a range past the end.
AlignSelections ==
    {<<>>, <<<<1, 1>>, <<2, 2>>>>, <<<<2, 2>>, <<1, 1>>>>, <<<<1, Far>>>>}
AlignCalls ==
    {Instructions(TransformInstructions("Fields", selections, placeholder, FALSE,
                                        FALSE, FALSE, FALSE),
                  "PerLine", skip_empty, FALSE, JoinString(<<PIPE>>)) :
        selections \in AlignSelections, placeholder \in Placeholders, skip_empty \in BOOLEAN}

InitAlign ==
    /\ PipelineHeld
    /\ InvertIdle
    /\ ResolverIdle
    /\ transform_instructions \in AlignCalls
    /\ record_bytes = <<>>
    /\ processed_result = ProcPending
    /\ all_records \in UNION {[1..n -> AlignRecords] : n \in 1..MaxAligned}
    /\ max_widths = NotScanned
    /\ aligned_results = <<>>

NextAlign == ScanFieldWidths \/ ProcessAligned

SpecAlign == InitAlign /\ [][NextAlign]_vars

(***************************************************************************)
(* The reader's align path as a whole: read every line, scan, attach the   *)
(* widths, stream the buffered records in batches to one worker.           *)
(***************************************************************************)
\* A record with its bytes and the widths attached to it.
AlignedRecord(i, bytes, term, widths) ==
    [index |-> i, bytes |-> bytes, has_terminator |-> term, field_widths |-> widths]

\* The lines read_until can return: a line with its newline, or a last line
\* without one.
AlignLines == {<<>>, <<97>>, <<97, COMMA, 97>>, <<195, 169, COMMA>>}
AlignChunks == {l \o <<NL>> : l \in AlignLines} \cup (AlignLines \ {<<>>})

\* read_record returned Some(record): it is pushed onto all_records, and
\* nothing is sent.
AlignRead(raw) ==
    /\ rpc = "read"
    /\ ~eof
    /\ index < MaxRecords
    /\ all_records' = Append(all_records, read_record(raw, NL).bytes)
    /\ raw_ends' = Append(raw_ends, raw[Len(raw)])
    /\ index' = index + 1
    /\ eof' = (raw[Len(raw)] # NL)
    /\ UNCHANGED <<cfgVars, trimVars, resolverVars, transformVars, invertVars, rpc, batch, batch_bytes, input,
                   recordQ, resultQ, workerVars, collectorVars, max_widths, aligned_results>>

\* read_record returned None: the loop breaks.
AlignReadEnd ==
    /\ rpc = "read"
    /\ eof' = TRUE
    /\ rpc' = "scan"
    /\ UNCHANGED <<cfgVars, trimVars, resolverVars, transformVars, invertVars, alignVars, index, batch, batch_bytes, input,
                   raw_ends, recordQ, resultQ, workerVars, collectorVars>>

\* Mutant: the scan leaves out the last record read.
AlignScanButLast ==
    /\ rpc = "scan"
    /\ max_widths' = Scanned(get_largest_field_widths(
                                 SubSeq(all_records, 1, Len(all_records) - 1),
                                 transform_instructions))
    /\ rpc' = "stream"
    /\ UNCHANGED <<cfgVars, trimVars, resolverVars, transformVars, invertVars, index, batch, batch_bytes, input, eof,
                   raw_ends, recordQ, resultQ, workerVars, collectorVars, all_records,
                   aligned_results>>

\* get_largest_field_widths over all_records; the widths are then attached
\* to every record.
AlignScan ==
    /\ rpc = "scan"
    /\ max_widths' = Scanned(get_largest_field_widths(all_records, transform_instructions))
    /\ rpc' = "stream"
    /\ UNCHANGED <<cfgVars, trimVars, resolverVars, transformVars, invertVars, index, batch, batch_bytes, input, eof,
                   raw_ends, recordQ, resultQ, workerVars, collectorVars, all_records,
                   aligned_results>>

\* add_record_to_batch of the next buffered record (input holds the records
\* handed over so far); once the byte quota is reached the batch is sent.
AlignAdd ==
    /\ rpc = "stream"
    /\ Len(input) < Len(all_records)
    /\ LET k == Len(input) + 1
           record == AlignedRecord(k - 1, all_records[k], raw_ends[k] = NL, max_widths)
           bytes == batch_bytes + Len(all_records[k])
       IN /\ input' = Append(input, record)
          /\ batch' = Append(batch, record)
          /\ batch_bytes' = bytes
          /\ rpc' = IF bytes >= BatchQuota THEN "send" ELSE "stream"
    /\ UNCHANGED <<cfgVars, trimVars, resolverVars, transformVars, invertVars, alignVars, index, eof, raw_ends,
                   recordQ, resultQ, workerVars, collectorVars>>

\* The for loop is over: flush_batch of what is left, then return.
AlignFlush ==
    /\ rpc = "stream"
    /\ Len(input) = Len(all_records)
    /\ rpc' = IF batch = <<>> THEN "done" ELSE "final_send"
    /\ UNCHANGED <<cfgVars, trimVars, resolverVars, transformVars, invertVars, alignVars, index, batch, batch_bytes, input,
                   eof, raw_ends, recordQ, resultQ, workerVars, collectorVars>>

\* record_sender.send(pending_batch): blocks while the records queue is full.
AlignSend ==
    /\ rpc \in {"send", "final_send"}
    /\ Len(recordQ) < QueueCap
    /\ recordQ' = Append(recordQ, batch)
    /\ batch' = <<>>
    /\ batch_bytes' = 0
    /\ rpc' = IF rpc = "send" THEN "stream" ELSE "done"
    /\ UNCHANGED <<cfgVars, trimVars, resolverVars, transformVars, invertVars, alignVars, index, input, eof, raw_ends,
                   resultQ, workerVars, collectorVars>>

\* The worker takes a batch and processes each record with the widths the
\* record carries.
AlignRecv ==
    /\ recordQ # <<>>
    /\ recordQ' = Tail(recordQ)
    /\ aligned_results' =
          aligned_results \o
              [k \in 1..Len(Head(recordQ)) |->
                  matched_result(transform_instructions,
                                 process_record(transform_instructions,
                                                Head(recordQ)[k].bytes,
                                                Head(recordQ)[k].field_widths.widths))]
    /\ UNCHANGED <<cfgVars, trimVars, resolverVars, transformVars, invertVars, readerVars, resultQ, workerVars,
                   collectorVars, all_records, max_widths>>

InitAlignReader ==
    /\ PipelineHeld
    /\ InvertIdle
    /\ ResolverIdle
    /\ AlignIdle
    /\ transform_instructions \in AlignCalls
    /\ record_bytes = <<>>
    /\ processed_result = ProcPending

NextAlignReader ==
    \/ \E raw \in AlignChunks : AlignRead(raw)
    \/ AlignReadEnd
    \/ AlignScan
    \/ AlignAdd
    \/ AlignFlush
    \/ AlignSend
    \/ AlignRecv

SpecAlignReader == InitAlignReader /\ [][NextAlignReader]_vars

(***************************************************************************)
(* The collector of processing/get_results.rs, which has the trim_newline  *)
(* option, on its own: it receives the chunks of up to MaxRecords records  *)
(* in every grouping and every arrival order.                              *)
(***************************************************************************)
\* ResultChunk::Ok of this collector: outputs are byte strings.
TrimOutputs(first, len) == [k \in 1..len |-> <<97 + first + k - 1>>]

\* The ways to cut records first .. n - 1 into consecutive chunks.
RECURSIVE Groupings(_, _)
Groupings(first, n) ==
    IF first >= n
    THEN {<<>>}
    ELSE UNION {{<<ChunkOk(first, TrimOutputs(first, len))>> \o g :
                    g \in Groupings(first + len, n)} : len \in 1..(n - first)}

\* Every order in which the chunks of a grouping can arrive.
Orders(chunks) ==
    {[k \in 1..Len(chunks) |-> chunks[p[k]]] :
        p \in {f \in [1..Len(chunks) -> 1..Len(chunks)] :
                  \A a, b \in 1..Len(chunks) : a # b => f[a] # f[b]}}
Arrivals(n) == UNION {Orders(g) : g \in Groupings(0, n)}

\* is_last_result.
is_last_result(record_index) ==
    trim_newline /\ max_index_seen = SomeIndex(record_index)

\* One iteration of `while let Ok(result) = result_receiver.recv()` up to
\* the flush loop: an Err chunk returns, an Ok chunk is inserted.
TrimRecv ==
    /\ cpc = "recv"
    /\ resultQ # <<>>
    /\ resultQ' = Tail(resultQ)
    /\ LET chunk == Head(resultQ)
           batch_end_index ==
               chunk.start_index + max(Len(chunk.outputs), 1) - 1
       IN IF chunk.kind = "Err"
          THEN /\ result' = FormatError(chunk)
               /\ cpc' = "done"
               /\ UNCHANGED <<pending, max_index_seen>>
          ELSE /\ pending' = Insert(pending, chunk.start_index, chunk.outputs)
               /\ max_index_seen' =
                     SomeIndex(IF max_index_seen.is_some
                               THEN max(max_index_seen.value, batch_end_index)
                               ELSE batch_end_index)
               /\ cpc' = "flush"
               /\ UNCHANGED result
    /\ UNCHANGED <<cfgVars, trim_newline, taken, resolverVars, transformVars, invertVars, alignVars,
                   readerVars, recordQ, workerVars, next_index, output_buffer, written,
                   reordered>>

\* `while let Some(&pending_index) = pending.keys().next()`: nothing is
\* pending or the first key is not next_index, so the loop is left.
TrimFlushBreak ==
    /\ cpc = "flush"
    /\ IF DOMAIN pending = {} THEN TRUE ELSE MinKey(pending) # next_index
    /\ cpc' = "recv"
    /\ UNCHANGED <<cfgVars, trimVars, resolverVars, transformVars, invertVars, alignVars, readerVars,
                   recordQ, resultQ, workerVars, next_index, pending, output_buffer, written,
                   result, reordered>>

\* The first key is next_index: pending.remove(&next_index).
TrimFlushTake ==
    /\ cpc = "flush"
    /\ DOMAIN pending # {}
    /\ MinKey(pending) = next_index
    /\ taken' = Taken(next_index, pending[next_index], 0)
    /\ pending' = Without(pending, next_index)
    /\ cpc' = "write"
    /\ UNCHANGED <<cfgVars, trim_newline, max_index_seen, resolverVars, transformVars, invertVars,
                   alignVars, readerVars, recordQ, resultQ, workerVars, next_index,
                   output_buffer, written, result, reordered>>

\* `while offset < outputs.len()` with is_last_result false: the output and
\* the terminator are appended, and written out at the flush threshold.
TrimWriteOne ==
    /\ cpc = "write"
    /\ taken.offset < Len(taken.outputs)
    /\ ~is_last_result(taken.base_index + taken.offset)
    /\ LET appended == output_buffer \o taken.outputs[taken.offset + 1] \o record_terminator
       IN IF Len(appended) >= FlushThreshold
          THEN written' = written \o appended /\ output_buffer' = <<>>
          ELSE written' = written /\ output_buffer' = appended
    /\ next_index' = taken.base_index + taken.offset + 1
    /\ taken' = [taken EXCEPT !.offset = @ + 1]
    /\ UNCHANGED <<cfgVars, trim_newline, max_index_seen, resolverVars, transformVars, invertVars,
                   alignVars, readerVars, recordQ, resultQ, workerVars, cpc, pending, result,
                   reordered>>

\* is_last_result: the remaining outputs go back into pending under
\* record_index, and `break` leaves the loop over the offsets.
TrimHoldLast ==
    /\ cpc = "write"
    /\ taken.offset < Len(taken.outputs)
    /\ is_last_result(taken.base_index + taken.offset)
    /\ pending' = Insert(pending, taken.base_index + taken.offset,
                         SubSeq(taken.outputs, taken.offset + 1, Len(taken.outputs)))
    /\ taken' = NoTaken
    /\ cpc' = "flush"
    /\ UNCHANGED <<cfgVars, trim_newline, max_index_seen, resolverVars, transformVars, invertVars,
                   alignVars, readerVars, recordQ, resultQ, workerVars, next_index,
                   output_buffer, written, result, reordered>>

\* offset has reached outputs.len(): back to the head of the flush loop.
TrimWriteDone ==
    /\ cpc = "write"
    /\ taken.offset >= Len(taken.outputs)
    /\ taken' = NoTaken
    /\ cpc' = "flush"
    /\ UNCHANGED <<cfgVars, trim_newline, max_index_seen, resolverVars, transformVars, invertVars,
                   alignVars, readerVars, recordQ, resultQ, workerVars, next_index, pending,
                   output_buffer, written, result, reordered>>

\* `for bytes in outputs` after the channel has closed, from output k: the
\* terminator is left out after the record that is_last_result.
RECURSIVE TrimDrainOutputs(_, _, _)
TrimDrainOutputs(outputs, k, st) ==
    IF k > Len(outputs)
    THEN st
    ELSE TrimDrainOutputs(outputs, k + 1,
             [st EXCEPT !.buf = @ \o outputs[k] \o
                                  (IF is_last_result(st.next) THEN <<>> ELSE record_terminator),
                        !.next = @ + 1])

\* `while let Some(outputs) = pending.remove(&next_index)`.
RECURSIVE TrimDrain(_)
TrimDrain(st) ==
    IF st.next \notin DOMAIN st.pend
    THEN st
    ELSE TrimDrain(TrimDrainOutputs(st.pend[st.next], 1,
                                    [st EXCEPT !.pend = Without(st.pend, st.next)]))

\* recv() returned Err: the code after the receive loop, to the return.
TrimClosed(count, strict_bounds_sel) ==
    /\ cpc = "recv"
    /\ resultQ = <<>>
    /\ LET st == TrimDrain(CollectorState)
           res == ClosedResult(st, strict_bounds_sel)
           zero == IF DOMAIN st.pend = {} /\ st.next = 0 /\ count
                   THEN <<48>> ELSE <<>>
       IN /\ next_index' = st.next
          /\ pending' = st.pend
          /\ result' = res
          /\ IF res = Success
             THEN /\ output_buffer' = <<>>
                  /\ written' = st.out \o zero \o st.buf
             ELSE /\ output_buffer' = st.buf
                  /\ written' = st.out \o zero
    /\ cpc' = "done"
    /\ UNCHANGED <<cfgVars, trimVars, resolverVars, transformVars, invertVars, alignVars, readerVars,
                   recordQ, resultQ, workerVars, reordered>>

\* The reader and the workers have finished; index records were read (one
\* in whole-string mode) and their chunks arrive in the order of resultQ.
InitTrim ==
    /\ input_mode \in InputModes
    /\ strict_return = FALSE
    /\ worker_count = 1
    /\ trim_newline \in BOOLEAN
    /\ rpc = "done"
    /\ index \in (IF input_mode = "WholeString" THEN {1} ELSE 0..MaxRecords)
    /\ batch = <<>>
    /\ batch_bytes = 0
    /\ input = <<>>
    /\ raw_ends = <<>>
    /\ reordered = FALSE
    /\ eof = TRUE
    /\ recordQ = <<>>
    /\ resultQ \in Arrivals(index)
    /\ wpc = [w \in Workers |-> IF w <= worker_count THEN "done" ELSE "unused"]
    /\ wchunk = [w \in Workers |-> NoChunk]
    /\ cpc = "recv"
    /\ next_index = 0
    /\ pending = <<>>
    /\ output_buffer = <<>>
    /\ written = <<>>
    /\ result = Running
    /\ max_index_seen = NoIndex
    /\ taken = NoTaken
    /\ ResolverIdle
    /\ TransformIdle
    /\ InvertIdle
    /\ AlignIdle

NextTrim ==
    \/ TrimRecv
    \/ TrimFlushBreak
    \/ TrimFlushTake
    \/ TrimWriteOne
    \/ TrimHoldLast
    \/ TrimWriteDone
    \/ \E count \in BOOLEAN, strict_bounds_sel \in BOOLEAN : TrimClosed(count, strict_bounds_sel)

\* The collector is the main thread and runs whenever it can take a step.
SpecTrim == InitTrim /\ [][NextTrim]_vars /\ WF_vars(NextTrim)

(***************************************************************************)
(* invert_selections on its own: every list of up to MaxRanges ranges with *)
(* ends up to one past MaxLen, inverted twice over 0 .. MaxLen units.      *)
(***************************************************************************)
\* Ranges as normalise_selection returns them: 0 <= start <= end, inside
\* the sequence or (a placeholder being allowed) reaching past its end.
ResolvedRangeSet ==
    {r \in (0..(MaxLen + 1)) \X (0..(MaxLen + 1)) : r[1] <= r[2]}
RangeLists == UNION {[1..n -> ResolvedRangeSet] : n \in 0..MaxRanges}

InitInvert ==
    /\ PipelineHeld
    /\ AlignIdle
    /\ ResolverIdle
    /\ TransformIdle
    /\ to_invert \in {ToInvert(ranges, length) : ranges \in RangeLists, length \in Lengths}
    /\ inverted_ranges = Inverted(0, <<>>)

NextInvert == CallInvertSelections

SpecInvert == InitInvert /\ [][NextInvert]_vars

(***************************************************************************)
(* Properties of the pipeline.                                             *)
(***************************************************************************)
\* Everything the collector has appended to its output so far.
Appended == written \o output_buffer

\* A byte of a record's own output (records' outputs are 97 + index).
IsPayload(b) == b >= 97
Payload(bytes) == SelectSeq(bytes, IsPayload)

\* The outputs of records 0 .. n-1, in index order.
RECURSIVE OutputsUpTo(_)
OutputsUpTo(n) ==
    IF n = 0 THEN <<>> ELSE OutputsUpTo(n - 1) \o input[n].res.bytes

\* C1: whatever the interleaving of workers and the arrival order of chunks,
\* the record outputs the collector has written are those of records
\* 0 .. next_index-1 in increasing index order, each exactly once.
C1_OutputInRecordOrder ==
    Payload(Appended) = Payload(OutputsUpTo(next_index))

\* C1 witness: a run that succeeded although a chunk arrived ahead of its
\* turn, with every record written.
C1_Witness ==
    /\ result = Success
    /\ reordered
    /\ next_index = Len(input)
    /\ Len(Payload(written)) >= 2

\* An Err chunk exists: the processing of some record has failed.
ErrInFlight ==
    \/ \E w \in Workers : wpc[w] = "send" /\ wchunk[w].kind = "Err"
    \/ \E k \in 1..Len(resultQ) : resultQ[k].kind = "Err"

\* C2 (as claimed): once the processing of a record has failed, the run ends
\* with an error: it never ends in success, and it never comes to a halt
\* before the error is reported.
C2_FailureEndsRun ==
    /\ [][ErrInFlight => result'.status # "ok"]_vars
    /\ [](ErrInFlight => ENABLED Next)

\* C3: on receiving an Err chunk for record i the collector ends the run at
\* once, writing nothing more, with that record's message prefixed `line i+1`
\* (per-line), `record i+1` (zero-terminated) or unprefixed (whole-string).
C3_ErrChunkEndsRun ==
    /\ [][(/\ cpc = "recv"
           /\ resultQ # <<>>
           /\ Head(resultQ).kind = "Err"
           /\ resultQ' = Tail(resultQ))
          => /\ cpc' = "done"
             /\ result'.status = "err"
             /\ result'.msg = Head(resultQ).error
             /\ result'.prefix = (CASE input_mode = "PerLine" -> "line"
                                    [] input_mode = "ZeroTerminated" -> "record"
                                    [] OTHER -> "")
             /\ input_mode # "WholeString" => result'.pos = Head(resultQ).index + 1
             /\ written' = written
             /\ output_buffer' = output_buffer
             /\ next_index' = next_index]_vars
    /\ [][result.status = "err" => UNCHANGED <<written, output_buffer, result>>]_vars

\* C3 witness: the run ended on the Err chunk of the third line, after output
\* had been written.
C3_Witness ==
    /\ result = Failure("line", 3, "bad record")
    /\ written # <<>>

\* The index the collector would reach by taking pending chunks in sequence.
RECURSIVE Contiguous(_, _)
Contiguous(p, n) ==
    IF n \in DOMAIN p THEN Contiguous(p, n + Len(p[n])) ELSE n

\* A buffered chunk is not contiguous with the next expected index.
HasGap == \E k \in DOMAIN pending : k >= Contiguous(pending, next_index)

\* C4: when the results queue closes while a buffered chunk is not contiguous
\* with the next expected index, the run ends with the "stream ended early"
\* error, naming the first missing record.
C4_GapEndsStreamEarly ==
    [][(cpc = "recv" /\ cpc' = "done" /\ resultQ = <<>> /\ HasGap)
       => result' = Failure("", Contiguous(pending, next_index),
                            "result stream ended early: missing record")]_vars

\* C4 witness: a run that ended so, with a chunk still buffered.
C4_Witness ==
    /\ result.status = "err"
    /\ result.msg = "result stream ended early: missing record"
    /\ DOMAIN pending # {}

\* The outputs of records 0 .. n-1, each followed by the mode's terminator
\* when the bytes read for it ended with that terminator.
RECURSIVE TerminatedOutputs(_)
TerminatedOutputs(n) ==
    IF n = 0 THEN <<>>
    ELSE TerminatedOutputs(n - 1) \o input[n].res.bytes \o
         (IF raw_ends[n] = Terminator(input_mode)
          THEN <<Terminator(input_mode)>> ELSE <<>>)

C6_WholeStringExact ==
    (input_mode = "WholeString" /\ result = Success /\ next_index = 1)
        => written = input[1].res.bytes

(***************************************************************************)
(* Properties of the selection resolver.                                   *)
(***************************************************************************)
\* The index a raw value stands for on len units: 1-based from the start, or
\* counted back from the end.
Resolved(raw, len) == IF raw > 0 THEN raw - 1 ELSE len + raw

ResolvedStart == Resolved(selection.raw_start, selection.length)
ResolvedEnd == Resolved(selection.raw_end, selection.length)
ZeroRaw == selection.raw_start = 0 \/ selection.raw_end = 0
Returned == normalised.kind # "Pending"

InvalidIndex == SelErr("selections are 1-based, 0 is an invalid index")
RangeOrder == SelErr("end index ({}) is less than start index ({}) in selection {}-{}")
OutOfBounds ==
    {"strict bounds error: no valid fields to select",
     "strict bounds error: index ({}) out of bounds, must be between 1 and {}",
     "strict bounds error: start index ({}) out of bounds, must be between 1 and {}",
     "strict bounds error: end index ({}) out of bounds, must be between 1 and {}"}

C8_OutOfOrderDecidedFirst ==
    Returned =>
        /\ ResolvedStart > ResolvedEnd =>
              normalised = (IF selection.strict_range_order THEN RangeOrder ELSE SelNone)
        /\ normalised.kind = "Some" => normalised.start <= normalised.end

\* C8 (amended): the same, except that under strict_bounds a raw 0 gives the
\* invalid-index error first, whatever the order of the resolved ends.
C8_OutOfOrderAfterZeroCheck ==
    Returned =>
        /\ (ResolvedStart > ResolvedEnd /\ ~(selection.strict_bounds /\ ZeroRaw)) =>
              normalised = (IF selection.strict_range_order THEN RangeOrder ELSE SelNone)
        /\ (ResolvedStart > ResolvedEnd /\ selection.strict_bounds /\ ZeroRaw) =>
              normalised = InvalidIndex
        /\ normalised.kind = "Some" => normalised.start <= normalised.end

\* C8 witness: 5-2 on three units under strict_bounds alone is dropped,
\* although its start is out of bounds.
C8_Witness ==
    /\ selection = Selection(5, 2, 3, FALSE, TRUE, FALSE)
    /\ normalised = SelNone

\* C9 (as claimed): with both strict flags off the call returns None or a
\* range with 0 <= start <= end < len.
C9_LenientInsideBounds ==
    (Returned /\ ~selection.strict_bounds /\ ~selection.strict_range_order) =>
        \/ normalised = SelNone
        \/ /\ normalised.kind = "Some"
           /\ 0 <= normalised.start
           /\ normalised.start <= normalised.end
           /\ normalised.end < selection.length

\* C9 (amended): with both strict flags off the call returns None or a range
\* with 0 <= start <= end; end < len holds when no placeholder is allowed
\* and len > 0.  With a placeholder allowed the ends are floored at 0 and not
\* capped; on zero units without placeholder the range returned is (0, 0).
C9_LenientFlooredAndCapped ==
    (Returned /\ ~selection.strict_bounds /\ ~selection.strict_range_order) =>
        /\ normalised.kind \in {"None", "Some"}
        /\ normalised.kind = "Some" =>
              /\ 0 <= normalised.start
              /\ normalised.start <= normalised.end
              /\ (~selection.is_placeholder /\ selection.length > 0) =>
                    normalised.end < selection.length
              /\ (~selection.is_placeholder /\ selection.length = 0) =>
                    normalised = SelSome(0, 0)
              /\ selection.is_placeholder =>
                    normalised = SelSome(max(ResolvedStart, 0), max(ResolvedEnd, 0))

\* C9 witness: 2-5 on three units without placeholder is capped to the last
\* unit.
C9_Witness ==
    /\ selection = Selection(2, 5, 3, FALSE, FALSE, FALSE)
    /\ normalised = SelSome(1, 2)

(***************************************************************************)
(* Properties of the composers.                                            *)
(***************************************************************************)
Processed == processed_result.kind # "Pending"

\* The texts of the record's units in the selection mode of the call.
Units ==
    IF transform_instructions.selection_mode = "Fields"
    THEN LET fields == split_fields(transform_instructions, record_bytes)
         IN [k \in 1..Len(fields) |-> fields[k].text]
    ELSE graphemes(record_bytes)

\* The ranges the lenient resolver gives for the user's list (the whole
\* sequence for an empty list).
ResolvedRanges ==
    IF transform_instructions.selections = <<>>
    THEN <<<<0, Len(Units) - 1>>>>
    ELSE normalise_selections(transform_instructions.selections, Len(Units),
                              transform_instructions.placeholder.is_some, FALSE, FALSE).ranges

\* What one index contributes: the unit's text, the placeholder, or nothing.
Piece(i) ==
    IF i < Len(Units) THEN Units[i + 1]
    ELSE IF transform_instructions.placeholder.is_some
    THEN transform_instructions.placeholder.bytes
    ELSE <<>>

RECURSIVE Pieces(_)
Pieces(indices) ==
    IF indices = <<>> THEN <<>> ELSE Piece(Head(indices)) \o Pieces(Tail(indices))

\* An output without the separators field mode writes between units (field
\* texts hold letters only, the placeholder is `?`).
NotSeparator(b) == b \notin {COMMA, SPACE}
Content(bytes) ==
    IF transform_instructions.selection_mode = "Fields"
    THEN SelectSeq(bytes, NotSeparator)
    ELSE bytes

\* C10 (as claimed): under lenient bounds without invert (and no other
\* strict flag), on a record of at least one unit, the composer returns an
\* output made, for each index of each resolved range in selection order, of
\* the unit's text if the index is in bounds, of one placeholder if it is
\* not and a placeholder is configured, and of nothing otherwise.
C10_EmitsTextOrPlaceholder ==
    (/\ Processed
     /\ ~transform_instructions.strict_bounds
     /\ ~transform_instructions.invert
     /\ ~transform_instructions.strict_range_order
     /\ ~transform_instructions.strict_return
     /\ Len(Units) > 0)
        => /\ processed_result.kind = "Ok"
           /\ Content(processed_result.bytes) = Pieces(loop_indices(ResolvedRanges))

\* Index i lies in one of the user's selections, each resolved on the
\* record's units (a selection out of order covers nothing).
UserCovers(i) ==
    \E k \in 1..Len(transform_instructions.selections) :
        /\ Resolved(transform_instructions.selections[k][1], Len(Units)) <= i
        /\ i <= Resolved(transform_instructions.selections[k][2], Len(Units))
NotSelected(i) == ~UserCovers(i)

\* The indices of the units no selection covers, in source order.
Unselected == SelectSeq([k \in 1..Len(Units) |-> k - 1], NotSelected)

IsSeparator(b) == b \in {COMMA, SPACE}
Separators(bytes) == SelectSeq(bytes, IsSeparator)

\* No strict flag is set.
Lenient ==
    /\ ~transform_instructions.strict_bounds
    /\ ~transform_instructions.strict_range_order
    /\ ~transform_instructions.strict_return

\* C13 (as claimed): with invert set and a selection list given, the output
\* is made of the units no selection covers, in source order, without any
\* placeholder; in field mode one separator stands between two units and
\* none after the last.
C13_InvertEmitsUnselectedOnly ==
    (/\ Processed
     /\ transform_instructions.invert
     /\ transform_instructions.selections # <<>>
     /\ Lenient
     /\ Len(Units) > 0)
        => /\ processed_result.kind = "Ok"
           /\ Content(processed_result.bytes) = Pieces(Unselected)
           /\ transform_instructions.selection_mode = "Fields" =>
                 Len(Separators(processed_result.bytes)) = max(Len(Unselected) - 1, 0)

\* C14 (as claimed): with invert set and an empty selection list the output
\* of every record is empty.
C14_InvertOfNothingIsEmpty ==
    (/\ Processed
     /\ transform_instructions.invert
     /\ transform_instructions.selections = <<>>
     /\ Lenient)
        => processed_result = ProcOk(<<>>)

(***************************************************************************)
(* Properties of invert_selections.                                        *)
(***************************************************************************)
\* Index i lies in one of the ranges.
Covers(ranges, i) == \E k \in 1..Len(ranges) : ranges[k][1] <= i /\ i <= ranges[k][2]
Coverage(ranges) == {i \in 0..(MaxLen + 2) : Covers(ranges, i)}
SequenceIndices == 0..(to_invert.length - 1)

\* C11 (as claimed): the ranges one call returns are sorted ascending,
\* pairwise disjoint and inside [0, len-1], and cover exactly the indices of
\* [0, len-1] that no range given covers.
C11_InvertIsComplement ==
    inverted_ranges.calls = 1 =>
        LET inverted == inverted_ranges.ranges
        IN /\ \A k \in 1..Len(inverted) :
                 /\ 0 <= inverted[k][1]
                 /\ inverted[k][1] <= inverted[k][2]
                 /\ inverted[k][2] <= to_invert.length - 1
           /\ \A k \in 1..(Len(inverted) - 1) : inverted[k][2] < inverted[k + 1][1]
           /\ \A i \in SequenceIndices :
                 Covers(inverted, i) <=> ~Covers(to_invert.ranges, i)

\* C12 (as claimed): the indices covered after inverting twice are the
\* indices of [0, len-1] that the ranges given cover.
C12_DoubleInvertRestoresCoverage ==
    inverted_ranges.calls = 2 =>
        Coverage(inverted_ranges.ranges) = Coverage(to_invert.ranges) \cap SequenceIndices

(***************************************************************************)
(* Properties of one record in a worker, under every option.               *)
(***************************************************************************)
\* The positions of the record's bytes the delimiter matches.
DelimiterAt == {k \in 1..Len(record_bytes) : record_bytes[k] \in Delimiters}
EndsWithDelimiter == record_bytes # <<>> /\ record_bytes[Len(record_bytes)] \in Delimiters
\* The record without its last byte.
Front == SubSeq(record_bytes, 1, Len(record_bytes) - 1)

\* A field-mode call that joins all fields with their own delimiters.
OriginalDelimiters ==
    /\ Processed
    /\ transform_instructions.selection_mode = "Fields"
    /\ transform_instructions.selections = <<>>
    /\ transform_instructions.join.mode \in {"Absent", "Auto"}
    /\ ~transform_instructions.skip_empty
    /\ ~transform_instructions.count

NonEmptyRuns ==
    {k \in 1..Len(record_bytes) :
        /\ record_bytes[k] \notin Delimiters
        /\ k = 1 \/ record_bytes[k - 1] \in Delimiters}
\* Whether the field after the last delimiter (after the start of a record
\* with no delimiter) is empty and the mode is whole-string.
TerminalFieldDiscarded ==
    /\ transform_instructions.input_mode = "WholeString"
    /\ record_bytes = <<>> \/ EndsWithDelimiter
\* The number of units of the record: bytes, characters (the records hold
\* one-byte characters only) or fields.
UnitCount ==
    IF transform_instructions.selection_mode # "Fields" THEN Len(record_bytes)
    ELSE IF transform_instructions.skip_empty THEN Cardinality(NonEmptyRuns)
    ELSE Cardinality(DelimiterAt) + 1 - (IF TerminalFieldDiscarded THEN 1 ELSE 0)
\* A number below ten in decimal.
Decimal(n) == <<48 + n>>
IsDelimiter(b) == b \in Delimiters

CountsFields ==
    /\ Processed
    /\ transform_instructions.selection_mode = "Fields"
    /\ transform_instructions.count
    /\ ~transform_instructions.skip_empty

EmptyResult ==
    /\ processed_result.kind = "Err"
    /\ processed_result.error \in {"strict returns error: no valid output",
                                    "strict returns error: empty record",
                                    "strict return error: empty record",
                                    "strict return error: empty field"}
\* The resolver fails the record before anything is composed.
ResolverRejects ==
    /\ Len(Units) > 0
    /\ normalise_selections(transform_instructions.selections, Len(Units),
                            transform_instructions.placeholder.is_some,
                            transform_instructions.strict_bounds,
                            transform_instructions.strict_range_order).kind = "Err"
\* The indices the selections visit, in order.
Visited == loop_indices(ResolvedRanges)
\* Some selected unit has a non-empty text; some index selected lies past
\* the last unit and a placeholder stands in for it.
TextContributed ==
    \E k \in 1..Len(Visited) : Visited[k] < Len(Units) /\ Units[Visited[k] + 1] # <<>>
PlaceholderContributed ==
    /\ transform_instructions.placeholder.is_some
    /\ \E k \in 1..Len(Visited) : Visited[k] >= Len(Units)
\* A record that is composed under strict_return.
ComposedStrictly ==
    /\ Processed
    /\ transform_instructions.strict_return
    /\ ~transform_instructions.count
    /\ ~ResolverRejects

\* C17 (as claimed): under strict_return a composed record fails with the
\* empty-result error exactly when no selected unit contributed a non-empty
\* text, a substituted placeholder not counting; without strict_return the
\* error never occurs.
C17_PlaceholderIsNotContent ==
    /\ ComposedStrictly => (EmptyResult <=> ~TextContributed)
    /\ (Processed /\ ~transform_instructions.strict_return) => ~EmptyResult

\* C17 (amended): under strict_return a composed record fails with the
\* empty-result error exactly when it has no units, or no selected unit
\* contributed a non-empty text and no placeholder was substituted; without
\* strict_return the error never occurs.
C17_PlaceholderIsContent ==
    /\ ComposedStrictly =>
            (EmptyResult <=>
                \/ Len(Units) = 0
                \/ ~(TextContributed \/ PlaceholderContributed))
    /\ (Processed /\ ~transform_instructions.strict_return) => ~EmptyResult

\* The two empty fields of `,` and the separator between them are no
\* content.
C17_Witness ==
    /\ ComposedStrictly
    /\ transform_instructions.selection_mode = "Fields"
    /\ ~transform_instructions.skip_empty
    /\ transform_instructions.input_mode = "PerLine"
    /\ transform_instructions.selections = <<>>
    /\ record_bytes = <<COMMA>>
    /\ EmptyResult

\* The record's delimiters in source order: the k-th follows field k - 1
\* and precedes field k (fields numbered from 0).
SourceDelimiters == SelectSeq(record_bytes, IsDelimiter)
\* A byte a join policy can write between two fields of letters.
IsJoinByte(b) == b \in Delimiters \cup {SPACE}
\* A field-mode call under one of the two neighbour policies in which every
\* index visited is a field of the record, so that every visit emits one.
JoinsNeighbours ==
    /\ Processed
    /\ transform_instructions.selection_mode = "Fields"
    /\ transform_instructions.join.mode \in {"AfterPrevious", "BeforeNext"}
    /\ ~transform_instructions.skip_empty
    /\ ~transform_instructions.count
    /\ \A k \in 1..Len(Visited) : Visited[k] < Len(Units)

\* C18: between the k-th and the next field emitted, AfterPrevious writes
\* the source delimiter that follows the k-th field emitted and BeforeNext
\* the source delimiter that precedes the next field emitted, when there is
\* such a delimiter.
C18_JoinIsNeighbourDelimiter ==
    JoinsNeighbours =>
        /\ processed_result.kind = "Ok"
        /\ LET joins == SelectSeq(processed_result.bytes, IsJoinByte)
           IN /\ Len(joins) = max(Len(Visited) - 1, 0)
              /\ \A k \in 1..(Len(Visited) - 1) :
                    IF transform_instructions.join.mode = "AfterPrevious"
                    THEN Visited[k] + 1 <= Len(SourceDelimiters) =>
                            joins[k] = SourceDelimiters[Visited[k] + 1]
                    ELSE Visited[k + 1] >= 1 =>
                            joins[k] = SourceDelimiters[Visited[k + 1]]

(***************************************************************************)
(* Properties of the align path.                                           *)
(***************************************************************************)
\* The bytes before the first `|`, and the segments between the `|`s.
FirstPipe(bytes) == CHOOSE k \in 1..Len(bytes) : bytes[k] = PIPE /\ \A j \in 1..(k - 1) : bytes[j] # PIPE
RECURSIVE Segments(_)
Segments(bytes) ==
    IF \A k \in 1..Len(bytes) : bytes[k] # PIPE
    THEN <<bytes>>
    ELSE <<SubSeq(bytes, 1, FirstPipe(bytes) - 1)>>
             \o Segments(SubSeq(bytes, FirstPipe(bytes) + 1, Len(bytes)))
IsSpace(b) == b = SPACE
NotSpace(b) == b # SPACE
\* The columns of the output of record n: the padding of a column is
\* written after the separator that ends it.
Columns(n) == Segments(aligned_results[n].bytes)
TextWidth(n, k) == display_width(SelectSeq(Columns(n)[k], NotSpace))
ColumnWidth(n, k) == TextWidth(n, k) + Len(SelectSeq(Columns(n)[k + 1], IsSpace))
\* The widest text at column k over the records that have one.
MaxTextWidth(k) ==
    LET texts == {TextWidth(n, k) : n \in {m \in 1..Len(aligned_results) : Len(Columns(m)) >= k}}
    IN CHOOSE w \in texts : \A v \in texts : v <= w
\* Every record has been processed, none failed.
AllAligned ==
    /\ Len(aligned_results) = Len(all_records)
    /\ \A n \in 1..Len(aligned_results) : aligned_results[n].kind = "Ok"

\* C19: once all records are emitted, every column of a record but its
\* last (text and padding, without the separator) is as wide on display as
\* the widest text at that column over all records.
C19_ColumnsEquallyWide ==
    AllAligned =>
        \A n \in 1..Len(aligned_results) :
            \A k \in 1..(Len(Columns(n)) - 1) :
                ColumnWidth(n, k) = MaxTextWidth(k)

(***************************************************************************)
(* Properties of the workers and of the reader.                            *)
(***************************************************************************)
\* The processing of a record fails: an error, or an empty output under
\* strict_return.
Fails(record) ==
    \/ record.res.kind = "Err"
    \/ record.res.kind = "Ok" /\ strict_return /\ record.res.bytes = <<>>
\* The first record of a batch that does not yield an output is at k, and
\* its processing fails.
FirstFailure(record_batch, k) ==
    /\ k \in 1..Len(record_batch)
    /\ Fails(record_batch[k])
    /\ \A j \in 1..(k - 1) : record_batch[j].res.kind = "Ok" /\ ~Fails(record_batch[j])
\* The message of a failed record.
FailureMessage(record) ==
    IF record.res.kind = "Err" THEN record.res.error ELSE "strict return error: empty field"

ConsecutiveFrom(record_batch, first) ==
    \A k \in 1..Len(record_batch) : record_batch[k].index = first + k - 1

\* C22: the records read carry the indices 0, 1, 2, ... in the order read;
\* the pending batch holds exactly the records read and not yet sent, so a
\* batch starts at the index after the last record sent before it; every
\* batch on the records queue is non-empty with consecutive indices, and a
\* send puts the pending batch, never an empty one, on the queue and leaves
\* the next batch to start after it.
C22_ReaderIndicesContiguous ==
    /\ [](/\ ConsecutiveFrom(input, 0)
          /\ input_mode # "WholeString" => index = Len(input)
          /\ batch = SubSeq(input, Len(input) - Len(batch) + 1, Len(input))
          /\ \A q \in 1..Len(recordQ) :
                /\ recordQ[q] # <<>>
                /\ ConsecutiveFrom(recordQ[q], recordQ[q][1].index)
                /\ recordQ[q][Len(recordQ[q])].index < Len(input) - Len(batch))
    /\ [][Len(recordQ') > Len(recordQ)
            => /\ batch # <<>>
               /\ recordQ' = Append(recordQ, batch)
               /\ batch' = <<>>
               /\ input' = input]_vars

\* A second batch is on the records queue: it starts after the first one.
C22_Witness ==
    /\ recordQ # <<>>
    /\ recordQ[1][1].index > 0
    /\ Len(recordQ[1]) > 1

(***************************************************************************)
(* Properties of the reader's align path.                                  *)
(***************************************************************************)
\* C23: nothing is on the records queue, pending in a batch or processed
\* before the reader has read to the end of the input and scanned the
\* widths; from the scan on no record is read; and every record in a batch
\* carries the widths scanned over all the records read.
C23_ScanBeforeSend ==
    /\ [](~(eof /\ max_widths.is_some)
            => recordQ = <<>> /\ batch = <<>> /\ aligned_results = <<>>)
    /\ [][max_widths.is_some => all_records' = all_records /\ max_widths' = max_widths]_vars
    /\ [](\A q \in 1..Len(recordQ) : \A k \in 1..Len(recordQ[q]) :
            /\ recordQ[q][k].field_widths =
                  Scanned(get_largest_field_widths(all_records, transform_instructions))
            /\ recordQ[q][k].bytes = all_records[recordQ[q][k].index + 1])

\* A batch is on the queue whose records carry a width that only a later
\* record of the input has.
C23_Witness ==
    /\ recordQ # <<>>
    /\ recordQ[1][1].index = 0
    /\ Len(all_records) > 1
    /\ recordQ[1][1].field_widths.widths # <<>>
    /\ recordQ[1][1].field_widths #
          Scanned(get_largest_field_widths(<<all_records[1]>>, transform_instructions))

(***************************************************************************)
(* Properties of the collector with trim_newline.                          *)
(***************************************************************************)
\* The outputs of records 0 .. n - 1, each followed by the terminator but
\* the last.
RECURSIVE TrimmedOutputs(_)
TrimmedOutputs(n) ==
    IF n = 0
    THEN <<>>
    ELSE TrimmedOutputs(n - 1) \o (IF n > 1 THEN record_terminator ELSE <<>>) \o <<97 + n - 1>>

\* C24: with trim_newline the collector returns, whatever the grouping and
\* arrival order of the chunks, and has then written every record's output
\* in input order with the terminator after each but the last.
C24_TrimNewlineTerminates ==
    /\ <>(trim_newline => cpc = "done")
    /\ []((trim_newline /\ cpc = "done" /\ index > 0)
            => result = Success /\ written = TrimmedOutputs(index))

(***************************************************************************)
(* Strict bounds on a record without units.                                *)
(***************************************************************************)
\* C25: a call under strict_bounds with a non-empty selection list (count
\* off) on a record that has no unit returns an error, in every selection
\* mode; it never returns an output.
C25_ZeroUnitsFailStrictBounds ==
    (/\ Processed
     /\ transform_instructions.strict_bounds
     /\ transform_instructions.selections # <<>>
     /\ ~transform_instructions.count
     /\ UnitCount = 0)
    => processed_result.kind = "Err"

(***************************************************************************)
(* Termination and loss in the pipeline.                                   *)
(***************************************************************************)
\* The reader waits to send on a full records queue, every worker waits to
\* send on a full results queue, and main has not started to receive.
SendDeadlock ==
    /\ rpc \in {"send", "final_send"}
    /\ Len(recordQ) >= QueueCap
    /\ Len(resultQ) >= QueueCap
    /\ \A w \in Workers : w <= worker_count => wpc[w] = "send"
    /\ cpc = "join"

\* C26: no state is reachable in which the reader is blocked on a full
\* records queue, every worker is blocked on a full results queue and the
\* results queue is not being consumed; a run that has not returned can
\* always take a step.
C26_NoSendDeadlock ==
    /\ ~SendDeadlock
    /\ Alive => ENABLED NextBacklog


\* C27: a run that ends in success has written one output for each record
\* the reader produced, and no run in which a worker stopped without
\* sending the chunk of a batch it had received ends in success.
C27_NoSilentLoss ==
    /\ result.status = "ok" => next_index = Len(input)
    /\ (\E w \in Workers : wpc[w] = "panicked") => result.status # "ok"


(***************************************************************************)
(* Which error a run reports.                                              *)
(***************************************************************************)
\* The positions (1-based) of the records whose processing fails.
FailingPositions == {k \in 1..Len(input) : Fails(input[k])}
LowestFailing == CHOOSE k \in FailingPositions : \A j \in FailingPositions : k <= j
\* The run has returned the error of an Err chunk.
ErrReported ==
    /\ result.status = "err"
    /\ result.msg \notin {"result stream ended early: missing record",
                          "strict return check failed: no input received",
                          "index out of bounds, must be between 1 and 0"}
\* The error names the record at position k.
Reports(k) ==
    /\ result.pos = (IF input_mode = "WholeString" THEN 0 ELSE k)
    /\ result.msg = FailureMessage(input[k])

\* C28 (as claimed): when two or more records fail, the error reported is
\* that of the lowest-indexed failing record, whatever the scheduling.
C28_LowestFailureReported ==
    (ErrReported /\ Cardinality(FailingPositions) >= 2) => Reports(LowestFailing)

\* C28 (amended): the error reported is the position and message of a
\* record that failed; with one worker it is that of the lowest-indexed
\* failing record.
C28_SomeFailureReported ==
    /\ ErrReported => \E k \in FailingPositions : Reports(k)
    /\ (ErrReported /\ worker_count = 1) => Reports(LowestFailing)

\* Two workers: the error reported is that of a record after the first one
\* that failed.
C28_Witness ==
    /\ ErrReported
    /\ worker_count = 2
    /\ result.pos > LowestFailing


(***************************************************************************)
(* Reads of the field sequence.                                            *)
(***************************************************************************)
\* C29: a field-mode call under lenient bounds never reads a field at an
\* index that is not smaller than the number of fields, with or without
\* placeholder and invert: the call never panics.
C29_FieldReadsInRange ==
    (/\ Processed
     /\ transform_instructions.selection_mode = "Fields"
     /\ ~transform_instructions.strict_bounds)
    => processed_result.kind # "Panic"


(***************************************************************************)
(* What has been written at any point of a run.                            *)
(***************************************************************************)
IsPrefix(a, b) == Len(a) <= Len(b) /\ a = SubSeq(b, 1, Len(a))
\* The outputs of records 0 .. n-1 with their terminators (whole-string
\* mode has none).
ExpectedOutput(n) ==
    IF input_mode = "WholeString" THEN OutputsUpTo(n) ELSE TerminatedOutputs(n)

\* C30: at every point of a run at which the output of some record has been
\* appended, the bytes appended are a prefix of the records' outputs with
\* their terminators, concatenated in index order; once the run has failed
\* on a record, they are a prefix of the outputs of the records before it.
C30_AppendedIsPrefix ==
    next_index > 0
    => /\ IsPrefix(Appended, ExpectedOutput(Len(input)))
       /\ (ErrReported /\ input_mode # "WholeString")
            => IsPrefix(Appended, ExpectedOutput(result.pos - 1))

====
